---- MODULE Spec2Model ----
(***************************************************************************)
(* Secure command link of the micro-NA firmware: the ESP-NOW receive       *)
(* callback (OnDataRecv), the rate limiter, the AES-CTR cipher, the HMAC   *)
(* validator, the failsafe state machine and the control loop.             *)
(*                                                                         *)
(* Time is the millisecond clock millis().  All clock values of the model  *)
(* stay far below 2^31, so a uint32 difference a - b is a - b when a >= b  *)
(* and 2^32 - (b - a) (a value above every threshold of the program) when  *)
(* a < b; U32Less states exactly the comparison the code makes on it.      *)
(***************************************************************************)
EXTENDS Integers, Naturals, Sequences, FiniteSets, TLC

\* ------------------------------------------------------------------ bounds
MaxEvents == 2

\* --------------------------------------------------------- program constants
SIGNAL_LOSS_THRESHOLD == 500
FAILSAFE_THRESHOLD == 2000
RATE_LIMIT_CAPACITY == 100
AES_MAX_PAYLOAD == 64
HMAC_MAX_PAYLOAD == 64
ControlPayloadLen == 10
PROTOCOL_VERSION == 1
MODE_ARMED == 1
MODE_AUTO == 2
SetupDelay == 100

FAILSAFE_IDLE == "IDLE"
FAILSAFE_ARMED == "ARMED"
FAILSAFE_SIGNAL_LOSS == "SIGNAL_LOSS"
FAILSAFE_EMERGENCY == "EMERGENCY"

RATE_LIMIT_ALLOWED == "ALLOWED"
RATE_LIMIT_EXCEEDED == "EXCEEDED"
RATE_LIMIT_BLOCKED == "BLOCKED"

\* ------------------------------------------------------------ integer widths
U8(x) == x % 256
U16(x) == x % 65536
I16(x) == IF U16(x) >= 32768 THEN U16(x) - 65536 ELSE U16(x)

RECURSIVE Xor(_, _)
Xor(a, b) ==
  IF a = 0 THEN b
  ELSE IF b = 0 THEN a
  ELSE (((a % 2) + (b % 2)) % 2) + 2 * Xor(a \div 2, b \div 2)

\* uint32_t d = a - b; d < k   (a, b < 2^31, k < 2^31)
U32Less(a, b, k) == IF a >= b THEN a - b < k ELSE FALSE

Constrain(x, lo, hi) == IF x < lo THEN lo ELSE IF x > hi THEN hi ELSE x

\* C integer division truncates toward zero
CDiv(a, b) == IF a >= 0 THEN a \div b ELSE -((-a) \div b)

Zeros(n) == [i \in 1..n |-> 0]

\* --------------------------------------------------------------- NAPacket
\* Control frame.  Axis values are int16, mode/buttons uint8.
NAPacket(ver, vt, thr, rol, pit, yw, md, btn, seq, flag, ivv, tag, crc) ==
  [protocolVersion |-> ver, vehicleType |-> vt,
   throttle |-> thr, roll |-> rol, pitch |-> pit, yaw |-> yw,
   mode |-> md, buttons |-> btn, sequenceNumber |-> seq,
   encryptionFlag |-> flag, iv |-> ivv, hmac |-> tag, checksum |-> crc]

\* (uint8_t *)&pkt.throttle, 10 bytes: throttle .. buttons, little endian
PayloadBytes(pkt) ==
  << U16(pkt.throttle) % 256, U16(pkt.throttle) \div 256,
     U16(pkt.roll) % 256, U16(pkt.roll) \div 256,
     U16(pkt.pitch) % 256, U16(pkt.pitch) \div 256,
     U16(pkt.yaw) % 256, U16(pkt.yaw) \div 256,
     pkt.mode, pkt.buttons >>

\* the packet with the 10 payload bytes overwritten (in-place decryption)
WithPayload(pkt, b) ==
  [pkt EXCEPT !.throttle = I16(b[1] + 256 * b[2]),
              !.roll = I16(b[3] + 256 * b[4]),
              !.pitch = I16(b[5] + 256 * b[6]),
              !.yaw = I16(b[7] + 256 * b[8]),
              !.mode = b[9], !.buttons = b[10]]

\* every byte of the frame except the checksum field
FrameBytes(pkt) ==
  <<pkt.protocolVersion, pkt.vehicleType>> \o PayloadBytes(pkt)
    \o <<pkt.sequenceNumber, pkt.encryptionFlag, pkt.iv>> \o pkt.hmac

\* CRC-16 with initial value 0xFFFF (empty input gives 0xFFFF): the register
\* is updated byte by byte, c := (31 * c + byte + 1) mod 2^16.  The update of
\* a range of bytes is the affine map [m, a]: c |-> (m * c + a) mod 2^16,
\* composed by halving the range.
\* a * b mod 2^16 without leaving 32-bit arithmetic
MulMod16(a, b) == ((a % 256) * b + (((a \div 256) * b) % 256) * 256) % 65536

RECURSIVE CrcRange(_, _, _)
CrcRange(bytes, lo, hi) ==
  IF lo > hi THEN [m |-> 1, a |-> 0]
  ELSE IF lo = hi THEN [m |-> 31, a |-> bytes[lo] + 1]
  ELSE LET mid == (lo + hi) \div 2
           l == CrcRange(bytes, lo, mid)
           r == CrcRange(bytes, mid + 1, hi)
       IN  [m |-> MulMod16(r.m, l.m), a |-> (MulMod16(r.m, l.a) + r.a) % 65536]

NA_CRC16(bytes) ==
  LET f == CrcRange(bytes, 1, Len(bytes))
  IN  (MulMod16(f.m, 65535) + f.a) % 65536

NA_CRC16_PACKET(pkt) == NA_CRC16(FrameBytes(pkt))

NA_UPDATE_PACKET_CHECKSUM(pkt) == [pkt EXCEPT !.checksum = NA_CRC16_PACKET(pkt)]

NA_PACKET_IS_VALID(pkt) ==
  /\ pkt.protocolVersion = PROTOCOL_VERSION
  /\ pkt.checksum = NA_CRC16_PACKET(pkt)

\* ------------------------------------------------------ EncryptionManager
\* gEncryptionState = [key, initialized]
\* byte i of the AES-256-CTR keystream for (key, iv)
Keystream(key, ivv, i) == (key * 37 + ivv * 11 + i * 7 + 5) % 256

EncryptionManager_init(st, key, seedOk) ==
  IF ~seedOk THEN [st |-> st, ret |-> FALSE]
  ELSE [st |-> [key |-> key, initialized |-> TRUE], ret |-> TRUE]

EncryptionManager_isReady(st) == st.initialized

\* mbedtls_ctr_drbg_random as an ideal generator: the n-th successful draw
\* yields the nonce n, never seen before; a refused call (cipher not
\* initialised, generator failure when rngOk is FALSE) leaves the buffer iv
\* as it was
EncryptionManager_generateIV(st, iv, drbg, rngOk) ==
  IF ~st.initialized THEN [ret |-> FALSE, iv |-> iv, drbg |-> drbg]
  ELSE IF ~rngOk THEN [ret |-> FALSE, iv |-> iv, drbg |-> drbg]
  ELSE [ret |-> TRUE, iv |-> drbg + 1, drbg |-> drbg + 1]

\* returns [ret, out]; out is the output buffer (unchanged input on failure)
\* variant: an over-long input is cut to AES_MAX_PAYLOAD bytes and processed
EncryptionManager_encrypt_truncates(st, plaintext, len, ivv) ==
  IF ~st.initialized THEN [ret |-> FALSE, out |-> plaintext]
  ELSE [ret |-> TRUE,
        out |-> [i \in 1..Len(plaintext) |->
                   IF i <= len /\ i <= AES_MAX_PAYLOAD
                   THEN Xor(plaintext[i], Keystream(st.key, ivv, i))
                   ELSE plaintext[i]]]

EncryptionManager_encrypt(st, plaintext, len, ivv) ==
  IF len > AES_MAX_PAYLOAD THEN [ret |-> FALSE, out |-> plaintext]
  ELSE IF ~st.initialized THEN [ret |-> FALSE, out |-> plaintext]
  ELSE [ret |-> TRUE,
        out |-> [i \in 1..Len(plaintext) |->
                   IF i <= len THEN Xor(plaintext[i], Keystream(st.key, ivv, i))
                   ELSE plaintext[i]]]

\* variant: decryption starts one keystream byte late
EncryptionManager_decrypt_shiftedStream(st, ciphertext, len, ivv) ==
  IF len > AES_MAX_PAYLOAD THEN [ret |-> FALSE, out |-> ciphertext]
  ELSE IF ~st.initialized THEN [ret |-> FALSE, out |-> ciphertext]
  ELSE [ret |-> TRUE,
        out |-> [i \in 1..Len(ciphertext) |->
                   IF i <= len
                   THEN Xor(ciphertext[i], Keystream(st.key, ivv, i + 1))
                   ELSE ciphertext[i]]]

EncryptionManager_decrypt(st, ciphertext, len, ivv) ==
  EncryptionManager_encrypt(st, ciphertext, len, ivv)

\* the call with its pointer arguments: nullArg names the argument that is
\* NULL ("none" when all three are given); lines 101-105
EncryptionManager_encrypt_call(st, buffer, len, ivv, nullArg) ==
  IF nullArg # "none" THEN [ret |-> FALSE, out |-> buffer]
  ELSE EncryptionManager_encrypt(st, buffer, len, ivv)

EncryptionManager_decrypt_call(st, buffer, len, ivv, nullArg) ==
  IF nullArg # "none" THEN [ret |-> FALSE, out |-> buffer]
  ELSE EncryptionManager_decrypt(st, buffer, len, ivv)

\* ---------------------------------------------------------- HMACValidator
\* gHMACState = [secret, initialized]
HMAC_SHA256_SIZE == 32

\* data bytes j, j + 30, j + 60 folded into one tag position
HmacFold(data, len, j) ==
  (IF j <= len THEN data[j] ELSE 0)
    + (IF j + 30 <= len THEN data[j + 30] * 256 ELSE 0)
    + (IF j + 60 <= len THEN data[j + 60] * 65536 ELSE 0)

\* variant: only the first 30 data bytes enter the tag
mbedtls_md_hmac_prefixOnly(secret, data, len) ==
  LET body == <<secret + 1, len>> \o SubSeq(data, 1, len)
  IN  [i \in 1..HMAC_SHA256_SIZE |-> IF i <= Len(body) THEN body[i] ELSE 0]

\* HMAC-SHA256 as an ideal MAC: the tag determines secret, length and data
\* (two inputs of up to 90 bytes have one tag only if they are the same)
mbedtls_md_hmac(secret, data, len) ==
  [i \in 1..HMAC_SHA256_SIZE |->
     IF i = 1 THEN secret + 1
     ELSE IF i = 2 THEN len
     ELSE HmacFold(data, len, i - 2)]

HMACValidator_init(st, secret) == [secret |-> secret, initialized |-> TRUE]

HMACValidator_reset(st) == [secret |-> 0, initialized |-> FALSE]

HMACValidator_generate(st, data, len) ==
  IF len > HMAC_MAX_PAYLOAD THEN [ret |-> FALSE, hmac |-> Zeros(HMAC_SHA256_SIZE)]
  ELSE IF ~st.initialized THEN [ret |-> FALSE, hmac |-> Zeros(HMAC_SHA256_SIZE)]
  ELSE [ret |-> TRUE, hmac |-> mbedtls_md_hmac(st.secret, data, len)]

\* result |= hmac1[i] ^ hmac2[i] over all 32 bytes
RECURSIVE CompareLoop(_, _, _, _)
CompareLoop(h1, h2, i, result) ==
  IF i > HMAC_SHA256_SIZE THEN result
  ELSE CompareLoop(h1, h2, i + 1,
                   IF h1[i] = h2[i] THEN result ELSE 1)

HMACValidator_constantTimeCompare(h1, h2) == CompareLoop(h1, h2, 1, 0) = 0

\* the same loop one iteration at a time; c = [h1, h2, i, result, steps, ...]
\* with i the number of byte pairs already passed
\* variant: the loop is left at the first mismatch
CompareIteration_earlyExit(c) ==
  IF c.h1[c.i + 1] = c.h2[c.i + 1]
  THEN [c EXCEPT !.i = @ + 1, !.steps = @ + 1]
  ELSE [c EXCEPT !.result = 1, !.i = HMAC_SHA256_SIZE, !.steps = @ + 1]

CompareIteration(c) ==
  [c EXCEPT !.result = IF c.h1[c.i + 1] = c.h2[c.i + 1] THEN @ ELSE 1,
            !.i = @ + 1,
            !.steps = @ + 1]

HMACValidator_validate(st, data, len, receivedHmac) ==
  IF ~st.initialized THEN FALSE
  ELSE LET g == HMACValidator_generate(st, data, len)
       IN  IF ~g.ret THEN FALSE
           ELSE HMACValidator_constantTimeCompare(g.hmac, receivedHmac)

\* -------------------------------------------------------- FailsafeManager
\* fs = [currentState, previousState, lastPacketTime, totalPackets,
\*       invalidHmacPackets]; stateChangeTime and ledBlinkTime are written
\* for the log line and the LED only and are never read back
FailsafeManager_ctor ==
  [currentState |-> FAILSAFE_IDLE, previousState |-> FAILSAFE_IDLE,
   lastPacketTime |-> 0,
   totalPackets |-> 0, invalidHmacPackets |-> 0]

FailsafeManager_setup(fs, millis) ==
  [fs EXCEPT !.lastPacketTime = millis]

\* variant: the liveness timer is stamped on every report
recordPacketReceived_stampsEveryReport(fs, timestamp, hmacValid, millis) ==
  LET ts == IF timestamp = 0 THEN millis ELSE timestamp
  IN  IF ~hmacValid
      THEN [fs EXCEPT !.totalPackets = @ + 1, !.invalidHmacPackets = @ + 1,
                      !.lastPacketTime = ts]
      ELSE [fs EXCEPT !.totalPackets = @ + 1, !.lastPacketTime = ts]

recordPacketReceived(fs, timestamp, hmacValid, millis) ==
  LET ts == IF timestamp = 0 THEN millis ELSE timestamp
  IN  IF ~hmacValid
      THEN [fs EXCEPT !.totalPackets = @ + 1, !.invalidHmacPackets = @ + 1]
      ELSE [fs EXCEPT !.totalPackets = @ + 1, !.lastPacketTime = ts]

\* variant: EMERGENCY is left only by a restart
updateNewState_latching(fs, ct) ==
  IF fs.currentState = FAILSAFE_EMERGENCY THEN FAILSAFE_EMERGENCY
  ELSE IF U32Less(ct, fs.lastPacketTime, SIGNAL_LOSS_THRESHOLD) THEN FAILSAFE_ARMED
  ELSE IF U32Less(ct, fs.lastPacketTime, FAILSAFE_THRESHOLD) THEN FAILSAFE_SIGNAL_LOSS
  ELSE FAILSAFE_EMERGENCY

\* the state update() selects for currentTime
updateNewState(fs, ct) ==
  IF U32Less(ct, fs.lastPacketTime, SIGNAL_LOSS_THRESHOLD) THEN FAILSAFE_ARMED
  ELSE IF U32Less(ct, fs.lastPacketTime, FAILSAFE_THRESHOLD) THEN FAILSAFE_SIGNAL_LOSS
  ELSE FAILSAFE_EMERGENCY

\* variant: a received frame of any kind holds the state below EMERGENCY
update_heldByTraffic(fs, currentTime, millis) ==
  LET ct == IF currentTime = 0 THEN millis ELSE currentTime
      s == updateNewState(fs, ct)
      newState == IF s = FAILSAFE_EMERGENCY /\ fs.invalidHmacPackets > 0
                  THEN FAILSAFE_SIGNAL_LOSS ELSE s
  IN  IF newState # fs.currentState
      THEN [fs EXCEPT !.previousState = fs.currentState,
                      !.currentState = newState]
      ELSE fs

update(fs, currentTime, millis) ==
  LET ct == IF currentTime = 0 THEN millis ELSE currentTime
      newState == updateNewState(fs, ct)
  IN  IF newState # fs.currentState
      THEN [fs EXCEPT !.previousState = fs.currentState,
                      !.currentState = newState]
      ELSE fs

isFailsafeActive(fs) == fs.currentState = FAILSAFE_EMERGENCY

\* ------------------------------------------------------- RateLimitManager
\* rl = [tokens, capacity, lastRefillTime, totalAllowed, totalBlocked,
\*       initialized]
RateLimitState_static ==
  [tokens |-> 0, capacity |-> RATE_LIMIT_CAPACITY, lastRefillTime |-> 0,
   totalAllowed |-> 0, totalBlocked |-> 0, initialized |-> FALSE]

\* variant: init accepts a token count above the capacity
RateLimitManager_init_noRangeCheck(rl, initialTokensArg, millis) ==
  [st |-> [tokens |-> U8(initialTokensArg), capacity |-> RATE_LIMIT_CAPACITY,
           lastRefillTime |-> millis, totalAllowed |-> 0,
           totalBlocked |-> 0, initialized |-> TRUE],
   ret |-> TRUE]

\* the argument is converted to uint8_t at the call
RateLimitManager_init(rl, initialTokensArg, millis) ==
  LET initialTokens == U8(initialTokensArg)
  IN  IF initialTokens > RATE_LIMIT_CAPACITY THEN [st |-> rl, ret |-> FALSE]
      ELSE [st |-> [tokens |-> initialTokens, capacity |-> RATE_LIMIT_CAPACITY,
                    lastRefillTime |-> millis, totalAllowed |-> 0,
                    totalBlocked |-> 0, initialized |-> TRUE],
            ret |-> TRUE]

\* variant: the refill does not advance lastRefillTime
RateLimitRefillStep_keepsStamp(rl, millis) ==
  LET elapsed == millis - rl.lastRefillTime
      refillCount == U8(elapsed \div 10)
      sum == U8(rl.tokens + refillCount)
  IN  IF elapsed >= 10
      THEN [rl EXCEPT !.tokens = IF sum > rl.capacity THEN rl.capacity ELSE sum]
      ELSE rl

\* lines 70-82: the lazy refill
RateLimitRefillStep(rl, millis) ==
  LET elapsed == millis - rl.lastRefillTime
      refillCount == U8(elapsed \div 10)
      sum == U8(rl.tokens + refillCount)
  IN  IF elapsed >= 10
      THEN [rl EXCEPT !.tokens = IF sum > rl.capacity THEN rl.capacity ELSE sum,
                      !.lastRefillTime = @ + refillCount * 10]
      ELSE rl

\* variant: commands of type 0 do not consume a token
RateLimitManager_checkCommand_freeTag(rl, commandType, millis) ==
  IF ~rl.initialized THEN [st |-> rl, ret |-> RATE_LIMIT_BLOCKED]
  ELSE LET r == RateLimitRefillStep(rl, millis)
       IN  IF r.tokens = 0
           THEN [st |-> [r EXCEPT !.totalBlocked = @ + 1],
                 ret |-> RATE_LIMIT_EXCEEDED]
           ELSE [st |-> [r EXCEPT !.tokens = IF commandType = 0 THEN @ ELSE @ - 1,
                                  !.totalAllowed = @ + 1],
                 ret |-> RATE_LIMIT_ALLOWED]

RateLimitManager_checkCommand(rl, commandType, millis) ==
  IF ~rl.initialized THEN [st |-> rl, ret |-> RATE_LIMIT_BLOCKED]
  ELSE LET r == RateLimitRefillStep(rl, millis)
       IN  IF r.tokens = 0
           THEN [st |-> [r EXCEPT !.totalBlocked = @ + 1],
                 ret |-> RATE_LIMIT_EXCEEDED]
           ELSE [st |-> [r EXCEPT !.tokens = @ - 1, !.totalAllowed = @ + 1],
                 ret |-> RATE_LIMIT_ALLOWED]

RateLimitManager_refill(rl) == rl.tokens

\* variant: reset() keeps the two counters
RateLimitManager_reset_keepsCounters(rl) ==
  [rl EXCEPT !.tokens = rl.capacity, !.lastRefillTime = 0]

RateLimitManager_reset(rl) ==
  [rl EXCEPT !.tokens = rl.capacity, !.lastRefillTime = 0,
             !.totalAllowed = 0, !.totalBlocked = 0]

\* ----------------------------------------------------------------- Rover
\* setSpeed arguments of the two motors for (throttle, steering)
Rover_drive(throttle, steering) ==
  LET leftSpeed == Constrain(I16(throttle + steering), -1000, 1000)
      rightSpeed == Constrain(I16(throttle - steering), -1000, 1000)
  IN  [left |-> CDiv(leftSpeed, 10), right |-> CDiv(rightSpeed, 10)]

Rover_setInputs(inputs, packet) ==
  [inputs EXCEPT !.throttle = packet.throttle, !.roll = packet.roll]

\* ----------------------------------------------------- KeyExchangeManager
\* ECDH over a small prime-order group: public = G^d, secret = peer^d (mod P)
KX_P == 7
KX_G == 3

RECURSIVE PowMod(_, _)
PowMod(b, e) == IF e = 0 THEN 1 ELSE (b * PowMod(b, e - 1)) % KX_P

KX_STATE_IDLE == "KX_IDLE"
KX_STATE_GENERATING_KEYS == "KX_GENERATING_KEYS"
KX_STATE_WAIT_FOR_PEER_PUBKEY == "KX_WAIT_FOR_PEER_PUBKEY"
KX_STATE_COMPUTING_SECRET == "KX_COMPUTING_SECRET"
KX_STATE_KEY_ESTABLISHED == "KX_KEY_ESTABLISHED"
KX_STATE_FAILED == "KX_FAILED"

\* kx = [state, initialized, d, sharedSecret]
KeyExchangeManager_ctor ==
  [state |-> KX_STATE_IDLE, initialized |-> FALSE, d |-> 0, sharedSecret |-> 0]

KeyExchangeManager_init(kx, rngOk) ==
  IF kx.initialized THEN [st |-> kx, ret |-> TRUE]
  ELSE IF ~rngOk THEN [st |-> kx, ret |-> FALSE]
  ELSE [st |-> [kx EXCEPT !.initialized = TRUE], ret |-> TRUE]

\* variant: reset() keeps the key pair of the curve context
KeyExchangeManager_reset_keepsContext(kx) ==
  [kx EXCEPT !.state = KX_STATE_IDLE, !.sharedSecret = 0]

KeyExchangeManager_reset(kx) ==
  [kx EXCEPT !.state = KX_STATE_IDLE, !.sharedSecret = 0,
             !.d = IF kx.initialized THEN 0 ELSE @]

\* priv = 0 stands for a failure of mbedtls_ecp_gen_keypair
generateKeyPair(kx, priv, rngOk) ==
  LET i == KeyExchangeManager_init(kx, rngOk)
  IN  IF ~kx.initialized /\ ~i.ret THEN [st |-> kx, ret |-> FALSE]
      ELSE IF priv = 0
           THEN [st |-> [i.st EXCEPT !.state = KX_STATE_FAILED], ret |-> FALSE]
           ELSE [st |-> [i.st EXCEPT !.state = KX_STATE_WAIT_FOR_PEER_PUBKEY,
                                     !.d = priv],
                 ret |-> TRUE]

\* a peer point outside 1..P-1 does not import; without an own private key
\* mbedtls_ecdh_calc_secret fails
computeSharedSecret(kx, peerPublicKey) ==
  IF ~kx.initialized THEN [st |-> kx, ret |-> FALSE]
  ELSE IF peerPublicKey < 1 \/ peerPublicKey >= KX_P
       THEN [st |-> [kx EXCEPT !.state = KX_STATE_FAILED], ret |-> FALSE]
       ELSE IF kx.d = 0
            THEN [st |-> [kx EXCEPT !.state = KX_STATE_FAILED], ret |-> FALSE]
            ELSE [st |-> [kx EXCEPT !.state = KX_STATE_KEY_ESTABLISHED,
                                    !.sharedSecret = PowMod(peerPublicKey, kx.d)],
                  ret |-> TRUE]

\* the public point Q = d*G of the own key pair
getPublicKey(kx) ==
  IF kx.state = KX_STATE_IDLE \/ kx.state = KX_STATE_FAILED
  THEN [ret |-> FALSE, key |-> 0]
  ELSE [ret |-> TRUE, key |-> PowMod(KX_G, kx.d)]

getSharedSecret(kx) ==
  IF kx.state # KX_STATE_KEY_ESTABLISHED
  THEN [ret |-> FALSE, secret |-> 0]
  ELSE [ret |-> TRUE, secret |-> kx.sharedSecret]

\* ------------------------------------------------------- handshake frames
PACKET_TYPE_HANDSHAKE_INIT == 160
PACKET_TYPE_HANDSHAKE_PUBKEY == 161

\* NAHandshakePacket: the checksum covers the frame without its last two bytes
NAHandshakePacket(type, publicKey) ==
  [protocolVersion |-> PROTOCOL_VERSION, type |-> type, publicKey |-> publicKey,
   checksum |-> NA_CRC16(<<PROTOCOL_VERSION, type, publicKey>>)]

HandshakeFields(f) == {f.protocolVersion, f.type, f.publicKey, f.checksum}

\* ----------------------------------------------------- OnDataRecv (control)
\* The checks of one received control frame report the verdict, the packet
\* after in-place decryption and the names of the checks that ran, in order.

\* variant: only the persisted configuration makes encryption mandatory
requireEncryption_configOnly(secEncryptionEnabled, enc) == secEncryptionEnabled

\* line 132
requireEncryption(secEncryptionEnabled, enc) ==
  secEncryptionEnabled \/ EncryptionManager_isReady(enc)

\* variant: the tag is validated over the received ciphertext, then the
\* payload is decrypted
EncryptedFrameChecks_tagOverCiphertext(frame, enc, hm) ==
  LET dec == EncryptionManager_decrypt(enc, PayloadBytes(frame),
                                       ControlPayloadLen, frame.iv)
      pktDec == WithPayload(frame, dec.out)
  IN  IF ~EncryptionManager_isReady(enc)
      THEN [valid |-> FALSE, pkt |-> frame, steps |-> <<"ready">>]
      ELSE IF ~HMACValidator_validate(hm, PayloadBytes(frame),
                                      ControlPayloadLen, frame.hmac)
      THEN [valid |-> FALSE, pkt |-> frame, steps |-> <<"ready", "hmac">>]
      ELSE [valid |-> dec.ret, pkt |-> pktDec,
            steps |-> <<"ready", "hmac", "decrypt">>]

\* lines 135-149: the branch of a frame with encryptionFlag == 1
EncryptedFrameChecks(frame, enc, hm) ==
  LET dec == EncryptionManager_decrypt(enc, PayloadBytes(frame),
                                       ControlPayloadLen, frame.iv)
      pktDec == WithPayload(frame, dec.out)
  IN  IF ~EncryptionManager_isReady(enc)
      THEN [valid |-> FALSE, pkt |-> frame, steps |-> <<"ready">>]
      ELSE IF ~dec.ret
      THEN [valid |-> FALSE, pkt |-> pktDec, steps |-> <<"ready", "decrypt">>]
      ELSE [valid |-> HMACValidator_validate(hm, PayloadBytes(pktDec),
                                             ControlPayloadLen, frame.hmac),
            pkt |-> pktDec, steps |-> <<"ready", "decrypt", "hmac">>]

\* variant: version and checksum are not looked at
StructuralCheck_skipsValidation(c) ==
  [accepted |-> c.valid, pkt |-> c.pkt, steps |-> c.steps]

\* valid && NA_PACKET_IS_VALID(&pkt), line 156
StructuralCheck(c) ==
  IF c.valid
  THEN [accepted |-> NA_PACKET_IS_VALID(c.pkt), pkt |-> c.pkt,
        steps |-> Append(c.steps, "struct")]
  ELSE [accepted |-> FALSE, pkt |-> c.pkt, steps |-> c.steps]

\* lines 128-156
ControlChecks(frame, enc, hm, secEncryptionEnabled) ==
  IF frame.encryptionFlag = 1
  THEN StructuralCheck(EncryptedFrameChecks(frame, enc, hm))
  ELSE IF requireEncryption(secEncryptionEnabled, enc)
  THEN StructuralCheck([valid |-> FALSE, pkt |-> frame, steps |-> <<"policy">>])
  ELSE StructuralCheck([valid |-> TRUE, pkt |-> frame, steps |-> <<"policy">>])

\* the verdict of the checks behind the rate limiter's answer chk
AfterRateLimit(chk, c) ==
  [rl |-> chk.st, status |-> chk.ret, accepted |-> c.accepted, pkt |-> c.pkt,
   steps |-> <<"rate">> \o c.steps]

\* variant: the frame is checked first and the rate limiter asked last
ControlPipeline_limiterLast(frame, rl, enc, hm, secEncryptionEnabled, millis) ==
  LET chk == RateLimitManager_checkCommand(rl, frame.mode, millis)
      c == ControlChecks(frame, enc, hm, secEncryptionEnabled)
  IN  [rl |-> chk.st, status |-> chk.ret,
       accepted |-> c.accepted /\ chk.ret = RATE_LIMIT_ALLOWED,
       pkt |-> c.pkt, steps |-> Append(c.steps, "rate")]

\* lines 119-165
ControlPipeline(frame, rl, enc, hm, secEncryptionEnabled, millis) ==
  LET chk == RateLimitManager_checkCommand(rl, frame.mode, millis)
  IN  IF chk.ret # RATE_LIMIT_ALLOWED
      THEN [rl |-> chk.st, status |-> chk.ret, accepted |-> FALSE,
            pkt |-> frame, steps |-> <<"rate">>]
      ELSE AfterRateLimit(chk, ControlChecks(frame, enc, hm, secEncryptionEnabled))

\* ------------------------------------------------------------ input frames
ZeroTag == Zeros(HMAC_SHA256_SIZE)

\* the two operator commands of the model
PlainA == NAPacket(PROTOCOL_VERSION, 1, 500, -200, 0, 0, MODE_ARMED, 0, 1, 0, 0, ZeroTag, 0)
PlainB == NAPacket(PROTOCOL_VERSION, 1, 300, 0, 0, 0, MODE_AUTO, 0, 2, 0, 0, ZeroTag, 0)

\* an unencrypted frame with a correct checksum
ClearFrame(p) == NA_UPDATE_PACKET_CHECKSUM(p)

\* the payload of f encrypted under (key, iv), every other field kept
EncryptPayload(f, key, ivv) ==
  WithPayload(f, [i \in 1..ControlPayloadLen |->
                    Xor(PayloadBytes(f)[i], Keystream(key, ivv, i))])

\* a frame protected the way the receiver checks it: tag and checksum over
\* the plaintext frame, then the payload encrypted under (key, iv)
SealedFrame(p, key, ivv) ==
  EncryptPayload(
    NA_UPDATE_PACKET_CHECKSUM(
      [p EXCEPT !.encryptionFlag = 1, !.iv = ivv,
                !.hmac = mbedtls_md_hmac(key, PayloadBytes(p), ControlPayloadLen)]),
    key, ivv)

\* encrypted under the right key by a sender that cannot make the tag
ForgedTagFrame(p, key, ivv) ==
  EncryptPayload(
    NA_UPDATE_PACKET_CHECKSUM([p EXCEPT !.encryptionFlag = 1, !.iv = ivv]),
    key, ivv)

\* the tag made over the ciphertext instead of the plaintext
TagOverCiphertextFrame(p, key, ivv) ==
  LET c == EncryptPayload([p EXCEPT !.encryptionFlag = 1, !.iv = ivv], key, ivv)
      tag == mbedtls_md_hmac(key, PayloadBytes(c), ControlPayloadLen)
  IN  EncryptPayload(
        NA_UPDATE_PACKET_CHECKSUM(
          [p EXCEPT !.encryptionFlag = 1, !.iv = ivv, !.hmac = tag]),
        key, ivv)

\* one bit of the (cipher)text of the throttle field flipped
FlipByte(f) == [f EXCEPT !.throttle = I16(Xor(U16(f.throttle), 1))]
BadChecksum(f) == [f EXCEPT !.checksum = (f.checksum + 1) % 65536]
BadVersion(f) == NA_UPDATE_PACKET_CHECKSUM([f EXCEPT !.protocolVersion = 153])
OddFlag(f) == NA_UPDATE_PACKET_CHECKSUM([f EXCEPT !.encryptionFlag = 2])

SenderKeys == {0, 2}
SenderIV == 1

GoodFrames ==
  {ClearFrame(PlainA), ClearFrame(PlainB), SealedFrame(PlainB, 0, SenderIV)}
    \cup {SealedFrame(PlainA, k, SenderIV) : k \in SenderKeys}

BadFrames ==
  {FlipByte(SealedFrame(PlainA, 0, SenderIV)),
   ForgedTagFrame(PlainA, 0, SenderIV),
   TagOverCiphertextFrame(PlainA, 0, SenderIV),
   BadChecksum(SealedFrame(PlainA, 0, SenderIV)),
   SealedFrame(BadVersion(PlainA), 0, SenderIV),
   BadChecksum(ClearFrame(PlainA)), BadVersion(ClearFrame(PlainA)),
   OddFlag(ClearFrame(PlainA))}

ControlFrames == GoodFrames \cup BadFrames

\* ---------------------------------------------------- handleSerialCommand
\* a serial JSON command: c, the fields of "sm"/"set_security_config",
\* seedOk = the outcome of seeding the RNG when the command sets a key, and
\* hmacKey = -1 for no "hmac" field, else the secret the tag was made with
ConfigSecret == 5

SerialCommands ==
  [c : {"sm"}, t : {700}, s : {50}, hmacKey : {-1, 0, 7},
   enc : {FALSE}, cps : {100}, secret : {0}, seedOk : {TRUE}]
    \cup [c : {"set_security_config"}, t : {0}, s : {0}, hmacKey : {-1},
          enc : BOOLEAN, cps : {100}, secret : {ConfigSecret}, seedOk : BOOLEAN]

NoCommand == [c |-> "none", t |-> 0, s |-> 0, hmacKey |-> -1,
              enc |-> FALSE, cps |-> 0, secret |-> 0, seedOk |-> TRUE]

\* lines 203-235: the verdict on the "hmac" field
SerialHmacValid(hm, cmd) ==
  IF cmd.hmacKey = -1 THEN TRUE
  ELSE hm.initialized /\ hm.secret = cmd.hmacKey

\* w = [fs, rl, enc, hm, sec, latestPacket, packetSequence, currentInputs]:
\* the globals handleSerialCommand() and loop() work on.  Lines 172-301.
handleSerialCommand(w, cmd, seedOk, millis) ==
  IF cmd.c = "none" THEN w
  ELSE
    LET chk == RateLimitManager_checkCommand(w.rl, 1, millis)
        hmacValid == SerialHmacValid(w.hm, cmd)
        w1 == [w EXCEPT !.rl = chk.st]
        w2 == [w1 EXCEPT !.fs = recordPacketReceived(w.fs, millis, hmacValid, millis)]
        sm == NA_UPDATE_PACKET_CHECKSUM(
                [w.latestPacket EXCEPT !.throttle = cmd.t, !.roll = cmd.s,
                                       !.protocolVersion = PROTOCOL_VERSION,
                                       !.encryptionFlag = 0,
                                       !.sequenceNumber = w.packetSequence + 1])
        newSec == [encryptionEnabled |-> cmd.enc, sharedSecret |-> cmd.secret,
                   rateLimitCPS |-> cmd.cps]
    IN  IF chk.ret # RATE_LIMIT_ALLOWED THEN w1
        ELSE IF ~hmacValid THEN w1
        ELSE IF cmd.c = "sm"
        THEN [w2 EXCEPT !.latestPacket = sm,
                        !.packetSequence = w.packetSequence + 1,
                        !.currentInputs = Rover_setInputs(w.currentInputs, sm)]
        ELSE [w2 EXCEPT !.sec = newSec,
                        !.enc = EncryptionManager_init(w.enc, newSec.sharedSecret, seedOk).st,
                        !.hm = HMACValidator_init(w.hm, newSec.sharedSecret),
                        !.rl = RateLimitManager_init(chk.st, newSec.rateLimitCPS, millis).st]

\* lines 486-500: navigation output overrides the shared packet in AUTO mode
NavOutputs == {"none", "nav", "rtl_home"}

NavStep(pkt, out) ==
  IF (pkt.mode \div MODE_AUTO) % 2 = 1
  THEN IF out = "nav" THEN [pkt EXCEPT !.throttle = 400, !.roll = 100]
       ELSE IF out = "rtl_home" THEN [pkt EXCEPT !.throttle = 0, !.roll = 0]
       ELSE pkt
  ELSE pkt

\* vehicle->loop() of the Rover build: the motors are driven from
\* currentInputs; fs is the failsafe state at that point of loop()
Rover_loop(inputs, fs) == Rover_drive(inputs.throttle, inputs.roll)

\* ------------------------------------------------------------------- state
\* events counts the clock steps, received frames and serial commands so far;
\* lastRecv is the record of the latest control frame handled by OnDataRecv:
\* the frame, the checks that ran and the verdict
\* kxFresh holds while reset() was called and no key pair was generated
\* since; loopPc is the position of loop() where its statements are taken one
\* by one ("idle" between two passes); rlGhost is the record of the limiter's
\* operations where they are called one by one: the argument n of the last
\* successful init (-1 after reset), the checkCommand calls since, whether the
\* clock moved since, the last operation, the last status, and whether the
\* last clock step was one of 10 ms on an emptied bucket, with the calls after
VARIABLES now, events, booted,
          failsafeManager, gRateLimitState, gEncryptionState, gHMACState,
          sec, kx, latestPacket, packetSequence, currentInputs, motorCmd,
          lastRecv, initiator, kxFresh, loopPc, uplink, downlink, rlGhost,
          call, telemetry

vars == <<now, events, booted,
          failsafeManager, gRateLimitState, gEncryptionState, gHMACState,
          sec, kx, latestPacket, packetSequence, currentInputs, motorCmd,
          lastRecv, initiator, kxFresh, loopPc, uplink, downlink, rlGhost,
          call, telemetry>>

TickSteps == {499, 500, 1500, 2500}
CpsValues == {1, 100, 200}
PrivKeys == {0, 2}
PeerKeys == {0, 3}

ZeroPacket == NAPacket(0, 0, 0, 0, 0, 0, 0, 0, 0, 0, 0, ZeroTag, 0)
NoRecv == [frame |-> ZeroPacket, accepted |-> FALSE, steps |-> <<>>]

\* The initiator of a handshake is a second device with the same key-exchange
\* session, cipher and authenticator, after its own setup(); sent and received
\* record its handshake frames.
InitiatorPrivKeys == {0, 5}

InitiatorBooted ==
  [kx |-> KeyExchangeManager_init(KeyExchangeManager_ctor, TRUE).st,
   enc |-> [key |-> 0, initialized |-> TRUE],
   hm |-> [secret |-> 0, initialized |-> TRUE],
   sent |-> {}, received |-> {}]

NoCalls == [n |-> -1, calls |-> 0, ticked |-> FALSE, op |-> "none",
            last |-> "NONE", dry |-> FALSE, after |-> 0]

\* call is the record of the last library call where the cipher and the
\* authenticator are called on their own; telemetry is the global telemetry
\* frame (its nonce and encryption flag) with the state of the nonce
\* generator and the list of the encrypted frames sent
NoCall == [fn |-> "none"]
TelemetryStatic == [iv |-> 0, encryptionFlag |-> 0, drbg |-> 0, sent |-> <<>>]

\* globals after static construction; sec is the persisted configuration
Init ==
  /\ now = 0 /\ events = 0 /\ booted = FALSE
  /\ failsafeManager = FailsafeManager_ctor
  /\ gRateLimitState = RateLimitState_static
  /\ gEncryptionState = [key |-> 0, initialized |-> FALSE]
  /\ gHMACState = [secret |-> 0, initialized |-> FALSE]
  /\ sec \in [encryptionEnabled : BOOLEAN, sharedSecret : {0},
              rateLimitCPS : CpsValues]
  /\ kx = KeyExchangeManager_ctor
  /\ latestPacket = ZeroPacket /\ packetSequence = 0
  /\ currentInputs = [throttle |-> 0, roll |-> 0]
  /\ motorCmd = [left |-> 0, right |-> 0]
  /\ lastRecv = NoRecv
  /\ initiator = InitiatorBooted
  /\ kxFresh = FALSE
  /\ loopPc = "idle"
  /\ rlGhost = NoCalls
  /\ call = NoCall
  /\ telemetry = TelemetryStatic
  /\ uplink = {} /\ downlink = {}

\* setup(): lines 399-454
Setup ==
  /\ ~booted
  /\ \E seedOk \in BOOLEAN :
       LET t == now + SetupDelay
       IN  /\ now' = t
           /\ failsafeManager' = FailsafeManager_setup(failsafeManager, t)
           /\ gEncryptionState' =
                EncryptionManager_init(gEncryptionState, sec.sharedSecret, seedOk).st
           /\ gHMACState' = HMACValidator_init(gHMACState, sec.sharedSecret)
           /\ gRateLimitState' =
                RateLimitManager_init(gRateLimitState, sec.rateLimitCPS, t).st
           /\ kx' = KeyExchangeManager_init(kx, TRUE).st
  /\ booted' = TRUE
  /\ UNCHANGED <<events, sec, latestPacket, packetSequence, currentInputs,
                 motorCmd, lastRecv, initiator, kxFresh, loopPc, uplink, downlink, rlGhost,
                 call, telemetry>>

\* the millisecond clock advances
Tick ==
  /\ booted
  /\ events < MaxEvents
  /\ \E d \in TickSteps : now' = now + d
  /\ events' = events + 1
  /\ UNCHANGED <<booted, failsafeManager, gRateLimitState,
                 gEncryptionState, gHMACState, sec, kx, latestPacket,
                 packetSequence, currentInputs, motorCmd, lastRecv,
                 initiator, kxFresh, loopPc, uplink, downlink, rlGhost,
                 call, telemetry>>

\* variant: the frame is copied to latestPacket before the verdict
OnDataRecvControlFrame_copiesBeforeVerdict(frame) ==
  /\ booted
  /\ events < MaxEvents
  /\ events' = events + 1
  /\ UNCHANGED <<now, booted, gEncryptionState, gHMACState,
                 sec, kx, packetSequence, motorCmd, initiator, kxFresh, loopPc, uplink,
                 downlink, rlGhost,
                 call, telemetry>>
  /\ \E r \in {ControlPipeline(frame, gRateLimitState, gEncryptionState,
                               gHMACState, sec.encryptionEnabled, now)} :
       /\ gRateLimitState' = r.rl
       /\ failsafeManager' =
            recordPacketReceived(failsafeManager, now, r.accepted, now)
       /\ latestPacket' = r.pkt
       /\ currentInputs' = IF r.accepted
                           THEN Rover_setInputs(currentInputs, r.pkt)
                           ELSE currentInputs
       /\ lastRecv' = [frame |-> frame, accepted |-> r.accepted,
                       steps |-> r.steps]

\* OnDataRecv with len == sizeof(NAPacket) on the given frame: lines 118-166
OnDataRecvControlFrame(frame) ==
  /\ booted
  /\ events < MaxEvents
  /\ events' = events + 1
  /\ UNCHANGED <<now, booted, gEncryptionState, gHMACState,
                 sec, kx, packetSequence, motorCmd, initiator, kxFresh, loopPc, uplink,
                 downlink, rlGhost,
                 call, telemetry>>
  /\ \E r \in {ControlPipeline(frame, gRateLimitState, gEncryptionState,
                               gHMACState, sec.encryptionEnabled, now)} :
       /\ gRateLimitState' = r.rl
       /\ failsafeManager' =
            recordPacketReceived(failsafeManager, now, r.accepted, now)
       /\ latestPacket' = IF r.accepted THEN r.pkt ELSE latestPacket
       /\ currentInputs' = IF r.accepted
                           THEN Rover_setInputs(currentInputs, r.pkt)
                           ELSE currentInputs
       /\ lastRecv' = [frame |-> frame, accepted |-> r.accepted,
                       steps |-> r.steps]

OnDataRecvControl == \E frame \in ControlFrames : OnDataRecvControlFrame(frame)

\* EncryptionManager_init(secret); HMACValidator_init(secret)
ApplyKeys(secret, seedOk) ==
  /\ gEncryptionState' = EncryptionManager_init(gEncryptionState, secret, seedOk).st
  /\ gHMACState' = HMACValidator_init(gHMACState, secret)

\* variant: the INIT handler applies the session's secret even when the
\* shared-secret computation failed
OnDataRecvHandshakeInitFrame_appliesOnFailure(hpkt) ==
  /\ booted
  /\ events < MaxEvents
  /\ hpkt.type = PACKET_TYPE_HANDSHAKE_INIT
  /\ events' = events + 1
  /\ UNCHANGED <<now, booted, failsafeManager, gRateLimitState,
                 sec, latestPacket, packetSequence, currentInputs, motorCmd,
                 lastRecv, initiator, loopPc, rlGhost,
                 call, telemetry>>
  /\ \E priv \in PrivKeys, seedOk \in BOOLEAN :
       LET k0 == KeyExchangeManager_reset(kx)
           g == generateKeyPair(k0, priv, TRUE)
           c == computeSharedSecret(g.st, hpkt.publicKey)
       IN  IF hpkt.protocolVersion # PROTOCOL_VERSION
           THEN UNCHANGED <<kx, kxFresh, gEncryptionState, gHMACState, downlink>>
           ELSE IF ~g.ret
           THEN /\ kx' = g.st
                /\ kxFresh' = TRUE
                /\ UNCHANGED <<gEncryptionState, gHMACState, downlink>>
           ELSE IF ~c.ret
           THEN /\ kx' = c.st
                /\ kxFresh' = FALSE
                /\ ApplyKeys(c.st.sharedSecret, seedOk)
                /\ UNCHANGED downlink
           ELSE /\ kx' = c.st
                /\ kxFresh' = FALSE
                /\ ApplyKeys(getSharedSecret(c.st).secret, seedOk)
                /\ downlink' = downlink \cup
                     {NAHandshakePacket(PACKET_TYPE_HANDSHAKE_PUBKEY,
                                        getPublicKey(c.st).key)}

\* OnDataRecv with len == sizeof(NAHandshakePacket), type INIT, on the frame
\* hpkt: lines 60-99.  The reply goes out by esp_now_send.
OnDataRecvHandshakeInitFrame(hpkt) ==
  /\ booted
  /\ events < MaxEvents
  /\ hpkt.type = PACKET_TYPE_HANDSHAKE_INIT
  /\ events' = events + 1
  /\ UNCHANGED <<now, booted, failsafeManager, gRateLimitState,
                 sec, latestPacket, packetSequence, currentInputs, motorCmd,
                 lastRecv, initiator, loopPc, rlGhost,
                 call, telemetry>>
  /\ \E priv \in PrivKeys, seedOk \in BOOLEAN :
       LET k0 == KeyExchangeManager_reset(kx)
           g == generateKeyPair(k0, priv, TRUE)
           c == computeSharedSecret(g.st, hpkt.publicKey)
       IN  IF hpkt.protocolVersion # PROTOCOL_VERSION
           THEN UNCHANGED <<kx, kxFresh, gEncryptionState, gHMACState, downlink>>
           ELSE IF ~g.ret
           THEN /\ kx' = g.st
                /\ kxFresh' = TRUE
                /\ UNCHANGED <<gEncryptionState, gHMACState, downlink>>
           ELSE IF ~c.ret
           THEN /\ kx' = c.st
                /\ kxFresh' = FALSE
                /\ UNCHANGED <<gEncryptionState, gHMACState, downlink>>
           ELSE /\ kx' = c.st
                /\ kxFresh' = FALSE
                /\ ApplyKeys(getSharedSecret(c.st).secret, seedOk)
                /\ downlink' = downlink \cup
                     {NAHandshakePacket(PACKET_TYPE_HANDSHAKE_PUBKEY,
                                        getPublicKey(c.st).key)}

\* an INIT frame from some peer arrives
OnDataRecvHandshakeInit ==
  /\ \E peer \in PeerKeys :
       OnDataRecvHandshakeInitFrame(
         NAHandshakePacket(PACKET_TYPE_HANDSHAKE_INIT, peer))
  /\ UNCHANGED uplink

\* variant: the frame also counts as a received packet for the failsafe
OnDataRecvHandshakePubkey_countsAsPacket ==
  /\ booted
  /\ events < MaxEvents
  /\ \E peer \in PeerKeys, seedOk \in BOOLEAN :
       LET c == computeSharedSecret(kx, peer)
       IN  IF ~c.ret
           THEN /\ kx' = c.st
                /\ UNCHANGED <<gEncryptionState, gHMACState>>
           ELSE /\ kx' = c.st
                /\ ApplyKeys(getSharedSecret(c.st).secret, seedOk)
  /\ failsafeManager' = recordPacketReceived(failsafeManager, now, TRUE, now)
  /\ events' = events + 1
  /\ UNCHANGED <<now, booted, gRateLimitState,
                 sec, latestPacket, packetSequence, currentInputs, motorCmd,
                 lastRecv, initiator, kxFresh, loopPc, uplink, downlink, rlGhost,
                 call, telemetry>>

\* OnDataRecv with len == sizeof(NAHandshakePacket), type PUBKEY: lines 100-115
OnDataRecvHandshakePubkey ==
  /\ booted
  /\ events < MaxEvents
  /\ \E peer \in PeerKeys, seedOk \in BOOLEAN :
       LET c == computeSharedSecret(kx, peer)
       IN  IF ~c.ret
           THEN /\ kx' = c.st
                /\ UNCHANGED <<gEncryptionState, gHMACState>>
           ELSE /\ kx' = c.st
                /\ ApplyKeys(getSharedSecret(c.st).secret, seedOk)
  /\ events' = events + 1
  /\ UNCHANGED <<now, booted, failsafeManager, gRateLimitState,
                 sec, latestPacket, packetSequence, currentInputs, motorCmd,
                 lastRecv, initiator, kxFresh, loopPc, uplink, downlink, rlGhost,
                 call, telemetry>>

\* the branch of OnDataRecv taken for a buffer of len bytes whose first two
\* bytes are version and type: lines 60-63, 100, 118
SizeofNAHandshakePacket == 68
SizeofNAPacket == 20
OnDataRecvBranch(len, version, type) ==
  IF len = SizeofNAHandshakePacket
  THEN IF version = PROTOCOL_VERSION
       THEN IF type = PACKET_TYPE_HANDSHAKE_INIT THEN "HandshakeInit"
            ELSE IF type = PACKET_TYPE_HANDSHAKE_PUBKEY THEN "HandshakePubkey"
            ELSE "None"
       ELSE "None"
  ELSE IF len = SizeofNAPacket THEN "Control"
  ELSE "None"

RecvLens == {0, 19, 20, 21, 68, 69}
RecvVersions == {0, PROTOCOL_VERSION}
RecvTypes == {0, PACKET_TYPE_HANDSHAKE_INIT, PACKET_TYPE_HANDSHAKE_PUBKEY}

\* OnDataRecv on a buffer for which no branch is taken; call notes the buffer
OnDataRecvDropped ==
  /\ booted
  /\ events < MaxEvents
  /\ \E len \in RecvLens, version \in RecvVersions, type \in RecvTypes :
       /\ OnDataRecvBranch(len, version, type) = "None"
       /\ call' = [fn |-> "OnDataRecv", len |-> len, version |-> version,
                   type |-> type]
  /\ events' = events + 1
  /\ UNCHANGED <<now, booted, failsafeManager, gRateLimitState,
                 gEncryptionState, gHMACState, sec, kx, latestPacket,
                 packetSequence, currentInputs, motorCmd, lastRecv,
                 initiator, kxFresh, loopPc, uplink, downlink, rlGhost,
                 telemetry>>

\* one pass of loop(): lines 459-527.  update(currentTime), then
\* handleSerialCommand() on the command cmd read from the serial port, the
\* navigation override, vehicle->loop()
\* currentTime is the value of millis() sampled at line 460
LoopBodyFrom(cmd, currentTime) ==
  \E w \in {handleSerialCommand(
              [fs |-> update(failsafeManager, currentTime, now),
               rl |-> gRateLimitState,
               enc |-> gEncryptionState, hm |-> gHMACState, sec |-> sec,
               latestPacket |-> latestPacket, packetSequence |-> packetSequence,
               currentInputs |-> currentInputs],
              cmd, cmd.seedOk, now)} :
      /\ failsafeManager' = w.fs
      /\ gRateLimitState' = w.rl
      /\ gEncryptionState' = w.enc
      /\ gHMACState' = w.hm
      /\ sec' = w.sec
      /\ packetSequence' = w.packetSequence
      /\ currentInputs' = w.currentInputs
      /\ \E navOut \in NavOutputs : latestPacket' = NavStep(w.latestPacket, navOut)
      /\ motorCmd' = Rover_loop(w.currentInputs, w.fs)

LoopBody(cmd) == LoopBodyFrom(cmd, now)

\* a pass with nothing on the serial port
Loop ==
  /\ booted
  /\ UNCHANGED <<now, events, booted, kx, lastRecv, initiator, kxFresh, loopPc, uplink,
                 downlink, rlGhost,
                 call, telemetry>>
  /\ LoopBody(NoCommand)

\* a pass that finds a command line on the serial port
LoopWithSerial ==
  /\ booted
  /\ events < MaxEvents
  /\ events' = events + 1
  /\ UNCHANGED <<now, booted, kx, lastRecv, initiator, kxFresh, loopPc, uplink, downlink, rlGhost,
                 call, telemetry>>
  /\ \E cmd \in SerialCommands : LoopBody(cmd)

Next ==
  \/ Setup
  \/ Tick
  \/ OnDataRecvControl
  \/ OnDataRecvHandshakeInit
  \/ OnDataRecvHandshakePubkey
  \/ Loop
  \/ LoopWithSerial

Spec == Init /\ [][Next]_vars


\* the receive callback with buffers of every length arriving
RecvNext ==
  \/ Setup
  \/ Tick
  \/ OnDataRecvControl
  \/ OnDataRecvHandshakeInit
  \/ OnDataRecvHandshakePubkey
  \/ OnDataRecvDropped

RecvSpec == Init /\ [][RecvNext]_vars

\* the control loop is called for ever
LiveSpec == Init /\ [][Next]_vars /\ WF_vars(Loop)

\* --------------------------------------------------- two-device handshake
\* the initiator opens a handshake: reset(), generateKeyPair(), getPublicKey()
\* as in "kx_init" (lines 351-371), and transmits the INIT frame
InitiatorBegin ==
  /\ booted
  /\ initiator.sent = {}
  /\ \E priv \in InitiatorPrivKeys :
       LET g == generateKeyPair(KeyExchangeManager_reset(initiator.kx), priv, TRUE)
           f == NAHandshakePacket(PACKET_TYPE_HANDSHAKE_INIT,
                                  getPublicKey(g.st).key)
       IN  IF g.ret
           THEN /\ initiator' = [initiator EXCEPT !.kx = g.st, !.sent = {f}]
                /\ uplink' = uplink \cup {f}
           ELSE /\ initiator' = [initiator EXCEPT !.kx = g.st]
                /\ UNCHANGED uplink
  /\ UNCHANGED <<now, events, booted, failsafeManager, gRateLimitState,
                 gEncryptionState, gHMACState, sec, kx, latestPacket,
                 packetSequence, currentInputs, motorCmd, lastRecv, downlink,
                 kxFresh, loopPc, rlGhost,
                 call, telemetry>>

\* the INIT frame reaches the responder unmodified
DeliverInit ==
  \E f \in uplink :
    /\ uplink' = uplink \ {f}
    /\ OnDataRecvHandshakeInitFrame(f)

\* the RESPONSE frame reaches the initiator unmodified: lines 100-115 on the
\* initiator's globals
DeliverResponse ==
  /\ \E f \in downlink \ initiator.received, seedOk \in BOOLEAN :
       LET c == computeSharedSecret(initiator.kx, f.publicKey)
       IN  /\ f.protocolVersion = PROTOCOL_VERSION
           /\ f.type = PACKET_TYPE_HANDSHAKE_PUBKEY
           /\ initiator' =
                IF ~c.ret
                THEN [initiator EXCEPT !.kx = c.st, !.received = @ \cup {f}]
                ELSE [initiator EXCEPT
                        !.kx = c.st,
                        !.enc = EncryptionManager_init(
                                  @, getSharedSecret(c.st).secret, seedOk).st,
                        !.hm = HMACValidator_init(@, getSharedSecret(c.st).secret),
                        !.received = @ \cup {f}]
  /\ UNCHANGED <<now, events, booted, failsafeManager, gRateLimitState,
                 gEncryptionState, gHMACState, sec, kx, latestPacket,
                 packetSequence, currentInputs, motorCmd, lastRecv,
                 uplink, downlink, kxFresh, loopPc, rlGhost,
                 call, telemetry>>

KxNext ==
  \/ Setup
  \/ InitiatorBegin
  \/ DeliverInit
  \/ DeliverResponse

KxSpec == Init /\ [][KxNext]_vars

\* --------------------------------------- loop() against the receive callback
\* The receive callback runs in the radio task and may run between any two
\* statements of loop().  loop() is taken in three parts: up to the test of
\* latestPacket.mode (line 487), the navigation writes (488-499) and
\* vehicle->loop() (525-526).
LoopReadMode ==
  /\ booted
  /\ loopPc = "idle"
  /\ failsafeManager' = update(failsafeManager, now, now)
  /\ loopPc' = IF (latestPacket.mode \div MODE_AUTO) % 2 = 1
               THEN "nav" ELSE "drive"
  /\ UNCHANGED <<now, events, booted, gRateLimitState, gEncryptionState,
                 gHMACState, sec, kx, latestPacket, packetSequence,
                 currentInputs, motorCmd, lastRecv, initiator, kxFresh,
                 uplink, downlink, rlGhost,
                 call, telemetry>>

LoopNavWrite ==
  /\ loopPc = "nav"
  /\ \E navOut \in NavOutputs :
       latestPacket' =
         IF navOut = "nav"
         THEN [latestPacket EXCEPT !.throttle = 400, !.roll = 100]
         ELSE IF navOut = "rtl_home"
         THEN [latestPacket EXCEPT !.throttle = 0, !.roll = 0]
         ELSE latestPacket
  /\ loopPc' = "drive"
  /\ UNCHANGED <<now, events, booted, failsafeManager, gRateLimitState,
                 gEncryptionState, gHMACState, sec, kx, packetSequence,
                 currentInputs, motorCmd, lastRecv, initiator, kxFresh,
                 uplink, downlink, rlGhost,
                 call, telemetry>>

LoopDrive ==
  /\ loopPc = "drive"
  /\ motorCmd' = Rover_loop(currentInputs, failsafeManager)
  /\ loopPc' = "idle"
  /\ UNCHANGED <<now, events, booted, failsafeManager, gRateLimitState,
                 gEncryptionState, gHMACState, sec, kx, latestPacket,
                 packetSequence, currentInputs, lastRecv, initiator, kxFresh,
                 uplink, downlink, rlGhost,
                 call, telemetry>>

RaceNext ==
  \/ Setup
  \/ OnDataRecvControl
  \/ LoopReadMode
  \/ LoopNavWrite
  \/ LoopDrive

RaceSpec == Init /\ [][RaceNext]_vars

\* ------------------------------------ loop() preempted after line 460
\* loop() reads millis() into currentTime (line 460) and calls
\* update(currentTime) (line 461); the receive callback and the clock may
\* run in between.  call holds the local variable currentTime.
PreemptSteps == {1, 5}

LoopSample ==
  /\ booted
  /\ loopPc = "idle"
  /\ call' = [fn |-> "loop", currentTime |-> now]
  /\ loopPc' = "sampled"
  /\ UNCHANGED <<now, events, booted, failsafeManager, gRateLimitState,
                 gEncryptionState, gHMACState, sec, kx, latestPacket,
                 packetSequence, currentInputs, motorCmd, lastRecv, initiator,
                 kxFresh, uplink, downlink, rlGhost, telemetry>>

Preempt ==
  /\ loopPc = "sampled"
  /\ events < MaxEvents
  /\ events' = events + 1
  /\ \E d \in PreemptSteps : now' = now + d
  /\ UNCHANGED <<booted, failsafeManager, gRateLimitState,
                 gEncryptionState, gHMACState, sec, kx, latestPacket,
                 packetSequence, currentInputs, motorCmd, lastRecv, initiator,
                 kxFresh, loopPc, uplink, downlink, rlGhost, call, telemetry>>

\* line 461 to the end of the pass, nothing on the serial port
LoopAfterSample ==
  /\ loopPc = "sampled"
  /\ loopPc' = "idle"
  /\ UNCHANGED <<now, events, booted, kx, lastRecv, initiator, kxFresh,
                 uplink, downlink, rlGhost, call, telemetry>>
  /\ LoopBodyFrom(NoCommand, call.currentTime)

\* between two passes any time may go by
IdleTick ==
  /\ loopPc = "idle"
  /\ Tick

SampleNext ==
  \/ Setup
  \/ IdleTick
  \/ OnDataRecvControl
  \/ LoopSample
  \/ Preempt
  \/ LoopAfterSample

SampleSpec == Init /\ [][SampleNext]_vars

\* ------------------------------------------- RateLimitManager operations
\* the public operations of the limiter, called in any order at any clock
MaxCalls == 102
MaxRateCalls == 4
RateInitArgs == {0, 1, 2, 100, 101}
RateTags == {0, 1, 255}
RateTickSteps == {10, 2000, 2570}

RlRest == <<booted, failsafeManager, gEncryptionState, gHMACState, sec, kx,
            latestPacket, packetSequence, currentInputs, motorCmd, lastRecv,
            initiator, kxFresh, loopPc, uplink, downlink, call, telemetry>>

RlOpInit ==
  /\ \E n \in RateInitArgs :
       \E r \in {RateLimitManager_init(gRateLimitState, n, now)} :
         /\ gRateLimitState' = r.st
         /\ rlGhost' = IF r.ret
                       THEN [NoCalls EXCEPT !.n = n, !.op = "init"]
                       ELSE [rlGhost EXCEPT !.op = "init"]
  /\ UNCHANGED <<now, events,
                 call, telemetry>>
  /\ UNCHANGED RlRest

CheckCommandCall ==
  /\ \E tag \in RateTags :
       \E r \in {RateLimitManager_checkCommand(gRateLimitState, tag, now)} :
         /\ gRateLimitState' = r.st
         /\ rlGhost' = [rlGhost EXCEPT !.calls = @ + 1, !.op = "check",
                                       !.last = r.ret, !.after = @ + 1]
  /\ UNCHANGED <<now, events,
                 call, telemetry>>
  /\ UNCHANGED RlRest

\* checkCommand in a run with clock steps
RlOpCheck ==
  /\ rlGhost.calls < MaxRateCalls
  /\ CheckCommandCall

\* checkCommand in a burst at one clock value
BurstCheck ==
  /\ rlGhost.calls < MaxCalls
  /\ CheckCommandCall

\* the deprecated refill() only reports the token count
RlOpRefill ==
  /\ RateLimitManager_refill(gRateLimitState) = gRateLimitState.tokens
  /\ rlGhost' = [rlGhost EXCEPT !.op = "refill"]
  /\ UNCHANGED <<now, events, gRateLimitState,
                 call, telemetry>>
  /\ UNCHANGED RlRest

RlOpReset ==
  /\ gRateLimitState' = RateLimitManager_reset(gRateLimitState)
  /\ rlGhost' = [NoCalls EXCEPT !.op = "reset"]
  /\ UNCHANGED <<now, events,
                 call, telemetry>>
  /\ UNCHANGED RlRest

RlTick ==
  /\ events < MaxEvents
  /\ events' = events + 1
  /\ \E d \in RateTickSteps :
       /\ now' = now + d
       /\ rlGhost' = [rlGhost EXCEPT
                        !.ticked = TRUE, !.op = "tick", !.last = "NONE",
                        !.after = 0,
                        !.dry = /\ d = 10
                                /\ rlGhost.last \in {RATE_LIMIT_ALLOWED,
                                                     RATE_LIMIT_EXCEEDED}
                                /\ gRateLimitState.tokens = 0]
  /\ UNCHANGED gRateLimitState
  /\ UNCHANGED RlRest

RateNext ==
  \/ RlOpInit
  \/ RlOpCheck
  \/ RlOpRefill
  \/ RlOpReset
  \/ RlTick

RateSpec == Init /\ [][RateNext]_vars

BurstNext ==
  \/ RlOpInit
  \/ BurstCheck
  \/ RlOpRefill
  \/ RlOpReset

BurstSpec == Init /\ [][BurstNext]_vars

\* long bursts after a reset: the clock moves only while no check has been
\* made since the last init or reset
ResetTick ==
  /\ rlGhost.calls = 0
  /\ RlTick

ResetNext ==
  \/ RlOpInit
  \/ ResetTick
  \/ RlOpReset
  \/ BurstCheck

ResetSpec == Init /\ [][ResetNext]_vars

\* ------------------------------------------- EncryptionManager operations
\* the cipher called on its own, on one buffer for input and output
CipherKeys == {0, 2, 5}
CipherIVs == {1, 9}
CipherLens == {1, 10, 64, 65}
NullArgs == {"none", "plaintext", "iv", "ciphertext"}

PayloadOf(len, k) == [i \in 1..len |-> (i * k + 3) % 256]
CipherBuffers == {PayloadOf(len, k) : len \in CipherLens, k \in {1, 37}}

CipRest == <<now, events, booted, failsafeManager, gRateLimitState,
             gHMACState, sec, kx, latestPacket, packetSequence, currentInputs,
             motorCmd, lastRecv, initiator, kxFresh, loopPc, uplink, downlink,
             rlGhost, telemetry>>

CipInit ==
  /\ \E key \in CipherKeys, seedOk \in BOOLEAN :
       \E r \in {EncryptionManager_init(gEncryptionState, key, seedOk)} :
         /\ gEncryptionState' = r.st
         /\ call' = [fn |-> "init", ret |-> r.ret]
  /\ UNCHANGED CipRest

CipEncrypt ==
  /\ \E buffer \in CipherBuffers, ivv \in CipherIVs, nullArg \in NullArgs :
       \E r \in {EncryptionManager_encrypt_call(gEncryptionState, buffer,
                                                Len(buffer), ivv, nullArg)} :
         call' = [fn |-> "encrypt", in |-> buffer, len |-> Len(buffer),
                  iv |-> ivv, nullArg |-> nullArg,
                  key |-> gEncryptionState.key,
                  ready |-> gEncryptionState.initialized,
                  ret |-> r.ret, out |-> r.out]
  /\ UNCHANGED gEncryptionState
  /\ UNCHANGED CipRest

\* the buffer handed to encrypt is handed to decrypt, in place
CipDecrypt ==
  /\ call.fn = "encrypt"
  /\ \E nullArg \in NullArgs :
       \E r \in {EncryptionManager_decrypt_call(gEncryptionState, call.out,
                                                call.len, call.iv, nullArg)} :
         call' = [fn |-> "decrypt", in |-> call.out, len |-> call.len,
                  iv |-> call.iv, nullArg |-> nullArg,
                  key |-> gEncryptionState.key,
                  ready |-> gEncryptionState.initialized,
                  ret |-> r.ret, out |-> r.out,
                  plain |-> call.in, encKey |-> call.key,
                  encRet |-> call.ret]
  /\ UNCHANGED gEncryptionState
  /\ UNCHANGED CipRest

CipherNext ==
  \/ CipInit
  \/ CipEncrypt
  \/ CipDecrypt

CipherSpec == Init /\ [][CipherNext]_vars

\* --------------------------------------------- HMACValidator operations
\* the authenticator called on its own: a payload is tagged, then a payload
\* (the same one or another) is validated against that tag
HmacSecrets == {0, 3}
Tamper(d, pos) == [d EXCEPT ![pos] = (@ + 1) % 256]
HmacUntampered == {PayloadOf(len, 1) : len \in CipherLens}
HmacPayloads ==
  HmacUntampered \cup {Tamper(d, 1) : d \in HmacUntampered}
                 \cup {Tamper(d, Len(d)) : d \in HmacUntampered}

HmRest == <<now, events, booted, failsafeManager, gRateLimitState,
            gEncryptionState, sec, kx, latestPacket, packetSequence,
            currentInputs, motorCmd, lastRecv, initiator, kxFresh, loopPc,
            uplink, downlink, rlGhost, telemetry>>

HmInit ==
  /\ \E secret \in HmacSecrets :
       gHMACState' = HMACValidator_init(gHMACState, secret)
  /\ UNCHANGED call
  /\ UNCHANGED HmRest

HmReset ==
  /\ gHMACState' = HMACValidator_reset(gHMACState)
  /\ UNCHANGED call
  /\ UNCHANGED HmRest

HmGenerate ==
  /\ \E data \in HmacPayloads :
       \E r \in {HMACValidator_generate(gHMACState, data, Len(data))} :
         call' = [fn |-> "generate", data |-> data, len |-> Len(data),
                  secret |-> gHMACState.secret,
                  ready |-> gHMACState.initialized,
                  ret |-> r.ret, hmac |-> r.hmac]
  /\ UNCHANGED gHMACState
  /\ UNCHANGED HmRest

\* the tag of the last generate call is presented with a payload
HmValidate ==
  /\ call.fn = "generate"
  /\ \E data \in HmacPayloads :
       call' = [fn |-> "validate", data |-> data, len |-> Len(data),
                secret |-> gHMACState.secret,
                ready |-> gHMACState.initialized,
                ret |-> HMACValidator_validate(gHMACState, data, Len(data),
                                               call.hmac),
                hmac |-> call.hmac,
                tagged |-> call.data, tagSecret |-> call.secret,
                tagRet |-> call.ret]
  /\ UNCHANGED gHMACState
  /\ UNCHANGED HmRest

HmacNext ==
  \/ HmInit
  \/ HmReset
  \/ HmGenerate
  \/ HmValidate

HmacSpec == Init /\ [][HmacNext]_vars

\* ------------------------------------ HMACValidator_constantTimeCompare
\* the comparison run iteration by iteration on pairs of tags
BaseTag == mbedtls_md_hmac(3, PayloadOf(10, 1), 10)
MismatchAt == {0, 1, 16, HMAC_SHA256_SIZE}
TagWith(pos) == IF pos = 0 THEN BaseTag ELSE [BaseTag EXCEPT ![pos] = @ + 1]
CompareTags ==
  {TagWith(pos) : pos \in MismatchAt}
    \cup {[i \in 1..HMAC_SHA256_SIZE |-> BaseTag[i] + 1]}
CompareNulls == {"none", "hmac1", "hmac2"}

CmpCall ==
  /\ call.fn = "compare" => call.done
  /\ \E h1 \in CompareTags, h2 \in CompareTags, nullArg \in CompareNulls :
       call' = [fn |-> "compare", h1 |-> h1, h2 |-> h2, nullArg |-> nullArg,
                i |-> 0, result |-> 0, steps |-> 0,
                done |-> nullArg # "none", ret |-> FALSE]
  /\ UNCHANGED gHMACState
  /\ UNCHANGED HmRest

CmpLoop ==
  /\ call.fn = "compare"
  /\ ~call.done
  /\ call.i < HMAC_SHA256_SIZE
  /\ call' = CompareIteration(call)
  /\ UNCHANGED gHMACState
  /\ UNCHANGED HmRest

CmpReturn ==
  /\ call.fn = "compare"
  /\ ~call.done
  /\ call.i >= HMAC_SHA256_SIZE
  /\ call' = [call EXCEPT !.done = TRUE, !.ret = (call.result = 0)]
  /\ UNCHANGED gHMACState
  /\ UNCHANGED HmRest

CompareNext ==
  \/ CmpCall
  \/ CmpLoop
  \/ CmpReturn

CompareSpec == Init /\ [][CompareNext]_vars

\* ------------------------------------------------- telemetry in loop()
\* the 20 Hz telemetry block of loop() with the calls that change the key
\* and the configuration between two cycles
MaxFrames == 3
TELEMETRY_ENC_LEN == 19
TelemetryKeys == {2, 5}
TelemetryBody == PayloadOf(TELEMETRY_ENC_LEN, 1)

TelRest == <<now, events, booted, failsafeManager, gRateLimitState,
             gHMACState, kx, latestPacket, packetSequence, currentInputs,
             motorCmd, lastRecv, initiator, kxFresh, loopPc, uplink,
             downlink, rlGhost, call>>

TelKey ==
  /\ \E key \in TelemetryKeys, seedOk \in BOOLEAN :
       gEncryptionState' = EncryptionManager_init(gEncryptionState, key,
                                                  seedOk).st
  /\ UNCHANGED <<sec, telemetry>>
  /\ UNCHANGED TelRest

TelConfig ==
  /\ sec' = [sec EXCEPT !.encryptionEnabled = ~@]
  /\ UNCHANGED <<gEncryptionState, telemetry>>
  /\ UNCHANGED TelRest

\* one pass of the block: the value returned by generateIV is not read
TelemetryCycle ==
  /\ Len(telemetry.sent) < MaxFrames
  /\ \E rngOk \in BOOLEAN :
       IF sec.encryptionEnabled
       THEN \E g \in {EncryptionManager_generateIV(gEncryptionState,
                          telemetry.iv, telemetry.drbg, rngOk)} :
              \E e \in {EncryptionManager_encrypt(gEncryptionState,
                            TelemetryBody, TELEMETRY_ENC_LEN, g.iv)} :
                telemetry' =
                  [iv |-> g.iv, encryptionFlag |-> 1, drbg |-> g.drbg,
                   sent |-> Append(telemetry.sent,
                              [encryptionFlag |-> 1, iv |-> g.iv,
                               key |-> gEncryptionState.key,
                               encrypted |-> e.ret, ivFresh |-> g.ret,
                               body |-> e.out,
                               hmac |-> HMACValidator_generate(gHMACState,
                                          e.out, TELEMETRY_ENC_LEN).hmac])]
       ELSE telemetry' =
              [telemetry EXCEPT
                 !.encryptionFlag = 0,
                 !.sent = Append(@, [encryptionFlag |-> 0,
                                     iv |-> telemetry.iv,
                                     key |-> gEncryptionState.key,
                                     encrypted |-> FALSE, ivFresh |-> FALSE,
                                     body |-> TelemetryBody,
                                     hmac |-> Zeros(HMAC_SHA256_SIZE)])]
  /\ UNCHANGED <<gEncryptionState, sec>>
  /\ UNCHANGED TelRest

TelemetryNext ==
  \/ TelKey
  \/ TelConfig
  \/ TelemetryCycle

TelemetrySpec == Init /\ [][TelemetryNext]_vars

\* ------------------------------------------- the protected telemetry region
\* NATelemetry telemetry is a global (main.cpp 457): the 19 bytes from
\* batteryVoltage keep what the previous cycle left in them.  Layout
\* (main.cpp 555-556): battery 1..4, rssi 5..6, uptime 7..10, latitude
\* 11..14, longitude 15..18, status 19.
\* the bytes of a float, little endian (IEEE-754 single precision)
FloatBytes(v) ==
  IF v = 0 THEN <<0, 0, 0, 0>>
  ELSE IF v = 3 THEN <<0, 0, 64, 64>>
  ELSE <<0, 0, 64, 65>>

U32Bytes(t) ==
  << t % 256, (t \div 256) % 256, (t \div 65536) % 256,
     (t \div 16777216) % 256 >>

\* status |= 0x02 and status &= ~0x02 on the byte already in the field
StatusSetGps(b) == IF (b \div 2) % 2 = 1 THEN b ELSE b + 2
StatusClearGps(b) == IF (b \div 2) % 2 = 1 THEN b - 2 ELSE b

\* lines 532-549: uptime, battery voltage, position and the gps-lock bit are
\* written; rssi and the other bits of status are not
TelemetryPopulate(region, currentTime, volts, gpsLocked, loc) ==
  [i \in 1..TELEMETRY_ENC_LEN |->
     IF i <= 4 THEN FloatBytes(volts)[i]
     ELSE IF i <= 6 THEN region[i]
     ELSE IF i <= 10 THEN U32Bytes(currentTime)[i - 6]
     ELSE IF i <= 18
          THEN (IF gpsLocked THEN FloatBytes(loc)[((i - 11) % 4) + 1] ELSE 0)
     ELSE IF gpsLocked THEN StatusSetGps(region[i])
          ELSE StatusClearGps(region[i])]

TELEMETRY_PERIOD == 50
RegionVolts == {3, 12}
RegionLoc == 12
RegionTickSteps == {50, 70}

NoRegion == [fn |-> "telemetry", region |-> Zeros(TELEMETRY_ENC_LEN),
             values |-> Zeros(TELEMETRY_ENC_LEN), lastTelemetryTime |-> 0,
             cycles |-> 0, gps |-> FALSE, encrypted |-> FALSE,
             key |-> 0, iv |-> 0]

RegionOf(c) == IF c.fn = "telemetry" THEN c ELSE NoRegion

RegRest == <<events, booted, failsafeManager, gRateLimitState,
             gHMACState, kx, latestPacket, packetSequence, currentInputs,
             motorCmd, lastRecv, initiator, kxFresh, loopPc, uplink,
             downlink, rlGhost>>

RegKey ==
  /\ \E key \in TelemetryKeys, seedOk \in BOOLEAN :
       gEncryptionState' = EncryptionManager_init(gEncryptionState, key,
                                                  seedOk).st
  /\ UNCHANGED <<now, sec, telemetry, call>>
  /\ UNCHANGED RegRest

RegConfig ==
  /\ sec' = [sec EXCEPT !.encryptionEnabled = ~@]
  /\ UNCHANGED <<now, gEncryptionState, telemetry, call>>
  /\ UNCHANGED RegRest

RegTick ==
  /\ RegionOf(call).cycles < MaxFrames
  /\ now - RegionOf(call).lastTelemetryTime < TELEMETRY_PERIOD
  /\ \E d \in RegionTickSteps : now' = now + d
  /\ UNCHANGED <<gEncryptionState, sec, telemetry, call>>
  /\ UNCHANGED RegRest

\* one pass of the block at lines 530-566 on the global frame; values is the
\* same pass on a copy of the frame that is never encrypted in place
TelemetryRegionCycle ==
  /\ RegionOf(call).cycles < MaxFrames
  /\ now - RegionOf(call).lastTelemetryTime >= TELEMETRY_PERIOD
  /\ \E rngOk \in BOOLEAN, volts \in RegionVolts, gpsLocked \in BOOLEAN :
       \E c \in {RegionOf(call)} :
       \E p \in {TelemetryPopulate(c.region, now, volts, gpsLocked,
                                   RegionLoc)} :
       \E v \in {TelemetryPopulate(c.values, now, volts, gpsLocked,
                                   RegionLoc)} :
         IF sec.encryptionEnabled
         THEN \E g \in {EncryptionManager_generateIV(gEncryptionState,
                            telemetry.iv, telemetry.drbg, rngOk)} :
                \E e \in {EncryptionManager_encrypt(gEncryptionState, p,
                              TELEMETRY_ENC_LEN, g.iv)} :
                  /\ telemetry' = [telemetry EXCEPT !.iv = g.iv,
                                     !.encryptionFlag = 1, !.drbg = g.drbg]
                  /\ call' = [fn |-> "telemetry", region |-> e.out,
                              values |-> v, lastTelemetryTime |-> now,
                              cycles |-> c.cycles + 1, gps |-> gpsLocked,
                              encrypted |-> e.ret,
                              key |-> gEncryptionState.key, iv |-> g.iv]
         ELSE /\ telemetry' = [telemetry EXCEPT !.encryptionFlag = 0]
              /\ call' = [fn |-> "telemetry", region |-> p,
                          values |-> v, lastTelemetryTime |-> now,
                          cycles |-> c.cycles + 1, gps |-> gpsLocked,
                          encrypted |-> FALSE,
                          key |-> gEncryptionState.key, iv |-> telemetry.iv]
  /\ UNCHANGED <<now, gEncryptionState, sec>>
  /\ UNCHANGED RegRest

RegionNext ==
  \/ RegKey
  \/ RegConfig
  \/ RegTick
  \/ TelemetryRegionCycle

RegionSpec == Init /\ [][RegionNext]_vars

\* ------------------------------------- outbound against inbound protection
\* a frame protected the way loop() protects telemetry (main.cpp 551-566):
\* the payload encrypted in place, the tag generated over the ciphertext,
\* the checksum computed last over the frame as it is sent
OutboundProtect(p, enc, hm, ivv) ==
  LET e == EncryptionManager_encrypt(enc, PayloadBytes(p), ControlPayloadLen, ivv)
      c == WithPayload([p EXCEPT !.encryptionFlag = 1, !.iv = ivv], e.out)
      g == HMACValidator_generate(hm, PayloadBytes(c), ControlPayloadLen)
  IN  NA_UPDATE_PACKET_CHECKSUM([c EXCEPT !.hmac = g.hmac])

ConvRest == <<now, events, booted, failsafeManager, gRateLimitState,
              sec, kx, latestPacket, packetSequence, currentInputs,
              motorCmd, lastRecv, initiator, kxFresh, loopPc, uplink,
              downlink, rlGhost, telemetry>>

ConvKeys ==
  /\ \E secret \in CipherKeys, seedOk \in BOOLEAN : ApplyKeys(secret, seedOk)
  /\ UNCHANGED call
  /\ UNCHANGED ConvRest

ConvProtect ==
  /\ \E p \in {PlainA, PlainB}, ivv \in CipherIVs :
       call' = [fn |-> "protect", plain |-> p,
                frame |-> OutboundProtect(p, gEncryptionState, gHMACState, ivv),
                key |-> gEncryptionState.key, secret |-> gHMACState.secret,
                ready |-> gEncryptionState.initialized
                            /\ gHMACState.initialized,
                accepted |-> FALSE, steps |-> <<>>]
  /\ UNCHANGED <<gEncryptionState, gHMACState>>
  /\ UNCHANGED ConvRest

\* the checks of OnDataRecv (main.cpp 128-156) on the protected frame
ConvReceive ==
  /\ call.fn = "protect"
  /\ \E r \in {ControlChecks(call.frame, gEncryptionState, gHMACState,
                              sec.encryptionEnabled)} :
       call' = [call EXCEPT !.fn = "receive", !.accepted = r.accepted,
                            !.steps = r.steps]
  /\ UNCHANGED <<gEncryptionState, gHMACState>>
  /\ UNCHANGED ConvRest

ConvNext ==
  \/ ConvKeys
  \/ ConvProtect
  \/ ConvReceive

ConvSpec == Init /\ [][ConvNext]_vars

\* ------------------------------------------- KeyExchangeManager operations
\* the public operations of the session object, called in any order
KxOpRest == <<now, events, booted, failsafeManager, gRateLimitState,
              gEncryptionState, gHMACState, sec, latestPacket,
              packetSequence, currentInputs, motorCmd, lastRecv,
              initiator, uplink, downlink, loopPc, rlGhost, call, telemetry>>

KxOpInit ==
  /\ \E rngOk \in BOOLEAN : kx' = KeyExchangeManager_init(kx, rngOk).st
  /\ UNCHANGED kxFresh
  /\ UNCHANGED KxOpRest

KxOpReset ==
  /\ kx' = KeyExchangeManager_reset(kx)
  /\ kxFresh' = TRUE
  /\ UNCHANGED KxOpRest

KxOpGenerateKeyPair ==
  /\ \E priv \in PrivKeys \cup InitiatorPrivKeys, rngOk \in BOOLEAN :
       \E g \in {generateKeyPair(kx, priv, rngOk)} :
         /\ kx' = g.st
         /\ kxFresh' = IF g.ret THEN FALSE ELSE kxFresh
  /\ UNCHANGED KxOpRest

KxOpComputeSharedSecret ==
  /\ \E peer \in 0..(KX_P - 1) : kx' = computeSharedSecret(kx, peer).st
  /\ UNCHANGED kxFresh
  /\ UNCHANGED KxOpRest

KxOpNext ==
  \/ KxOpInit
  \/ KxOpReset
  \/ KxOpGenerateKeyPair
  \/ KxOpComputeSharedSecret

KxOpSpec == Init /\ [][KxOpNext]_vars

\* ------------------------------------------------------------- properties
\* one pass of loop(), with or without a serial command
LoopPass == Loop \/ LoopWithSerial

\* In the properties of OnDataRecv the frame of a receive step is
\* lastRecv'.frame: OnDataRecvControlFrame(frame) holds of no other frame.
\* currentTime - lastPacketTime at a loop pass that starts now
timeSincePacket == now - failsafeManager.lastPacketTime

\* authenticated reports so far
validPackets == failsafeManager.totalPackets - failsafeManager.invalidHmacPackets

MotorsStopped == motorCmd = [left |-> 0, right |-> 0]

\* C1: a report with authenticated = false only increments the total and the
\* invalid counter; the time of the last authenticated packet, and with it
\* the state every later update() selects, is what it was.
C1_InvalidReportKeepsLivenessTimer ==
  [][failsafeManager'.invalidHmacPackets # failsafeManager.invalidHmacPackets
       => /\ failsafeManager' =
               [failsafeManager EXCEPT !.totalPackets = @ + 1,
                                       !.invalidHmacPackets = @ + 1]
          /\ \A d \in {0} \cup TickSteps :
               updateNewState(failsafeManager', now + d)
                 = updateNewState(failsafeManager, now + d)]_vars

\* only failed reports since setup, and update() has moved on to SIGNAL_LOSS
C1_Witness ==
  /\ failsafeManager.invalidHmacPackets > 0
  /\ validPackets = 0
  /\ failsafeManager.currentState = FAILSAFE_SIGNAL_LOSS

\* C2: a control frame causes exactly one report to the failsafe manager;
\* the report is authenticated only if the frame passed the rate limiter, the
\* encryption policy, decryption and tag validation (when encrypted) and the
\* structural validation; every other frame is reported unauthenticated and
\* leaves the liveness timer alone.
C2_OneReportPerFrame ==
  [][\A frame \in {lastRecv'.frame} :
       OnDataRecvControlFrame(frame) =>
         LET chk == RateLimitManager_checkCommand(gRateLimitState, frame.mode, now)
             dec == EncryptionManager_decrypt(gEncryptionState, PayloadBytes(frame),
                                              ControlPayloadLen, frame.iv)
             plain == IF frame.encryptionFlag = 1
                      THEN WithPayload(frame, dec.out) ELSE frame
             passed ==
               /\ chk.ret = RATE_LIMIT_ALLOWED
               /\ IF frame.encryptionFlag = 1
                  THEN /\ gEncryptionState.initialized
                       /\ dec.ret
                       /\ HMACValidator_validate(gHMACState, PayloadBytes(plain),
                                                 ControlPayloadLen, frame.hmac)
                  ELSE ~(sec.encryptionEnabled \/ gEncryptionState.initialized)
               /\ NA_PACKET_IS_VALID(plain)
         IN  /\ failsafeManager'.totalPackets = failsafeManager.totalPackets + 1
             /\ IF passed
                THEN failsafeManager'.invalidHmacPackets
                       = failsafeManager.invalidHmacPackets
                ELSE /\ failsafeManager'.invalidHmacPackets
                          = failsafeManager.invalidHmacPackets + 1
                     /\ failsafeManager'.lastPacketTime
                          = failsafeManager.lastPacketTime]_vars

\* an encrypted frame failed the tag validation after the timer was last set
C2_Witness ==
  /\ lastRecv.steps = <<"rate", "ready", "decrypt", "hmac">>
  /\ ~lastRecv.accepted
  /\ failsafeManager.invalidHmacPackets > 0
  /\ failsafeManager.lastPacketTime < now

\* C3: a loop pass more than 2000 ms after the last authenticated packet
\* leaves the state EMERGENCY; no step without an authenticated report moves
\* the time of the last authenticated packet; and under a control loop that
\* keeps running, silence of more than 2000 ms leads to EMERGENCY unless an
\* authenticated packet ends it.
C3_SilenceLeadsToEmergency ==
  /\ [][LoopPass /\ timeSincePacket' > FAILSAFE_THRESHOLD
          => failsafeManager'.currentState = FAILSAFE_EMERGENCY]_vars
  /\ [][booted /\ validPackets' = validPackets
          => failsafeManager'.lastPacketTime = failsafeManager.lastPacketTime]_vars
  /\ (booted /\ timeSincePacket > FAILSAFE_THRESHOLD)
       ~> (failsafeManager.currentState = FAILSAFE_EMERGENCY
             \/ timeSincePacket <= FAILSAFE_THRESHOLD)

\* EMERGENCY reached although rejected frames arrived during the silence
C3_Witness ==
  /\ failsafeManager.currentState = FAILSAFE_EMERGENCY
  /\ failsafeManager.invalidHmacPackets > 0
  /\ validPackets = 0
  /\ timeSincePacket > FAILSAFE_THRESHOLD

\* C4: whenever the failsafe state is EMERGENCY the motors are commanded
\* with zero output.
C4_EmergencySuppressesOutput ==
  isFailsafeActive(failsafeManager) => MotorsStopped

\* C5: the state a loop pass leaves is decided by the elapsed time alone:
\* ARMED below 500 ms, SIGNAL_LOSS from 500 ms to below 2000 ms, EMERGENCY
\* above 2000 ms, whatever the state before.
C5_StateIsFunctionOfElapsedTime ==
  [][LoopPass =>
       /\ timeSincePacket < SIGNAL_LOSS_THRESHOLD
            => failsafeManager'.currentState = FAILSAFE_ARMED
       /\ (timeSincePacket >= SIGNAL_LOSS_THRESHOLD
             /\ timeSincePacket < FAILSAFE_THRESHOLD)
            => failsafeManager'.currentState = FAILSAFE_SIGNAL_LOSS
       /\ timeSincePacket > FAILSAFE_THRESHOLD
            => failsafeManager'.currentState = FAILSAFE_EMERGENCY]_vars

\* back in ARMED straight from EMERGENCY
C5_Witness ==
  /\ failsafeManager.currentState = FAILSAFE_ARMED
  /\ failsafeManager.previousState = FAILSAFE_EMERGENCY
  /\ validPackets > 0

\* C6: a loop pass leaves EMERGENCY only for an elapsed time strictly above
\* 2000 ms; at exactly 2000 ms it leaves SIGNAL_LOSS.
C6_EmergencyOnlyAboveThreshold ==
  [][LoopPass =>
       /\ failsafeManager'.currentState = FAILSAFE_EMERGENCY
            => timeSincePacket > FAILSAFE_THRESHOLD
       /\ timeSincePacket = FAILSAFE_THRESHOLD
            => failsafeManager'.currentState = FAILSAFE_SIGNAL_LOSS]_vars

\* C7: a frame without the encryption flag is never accepted while the
\* configuration has encryptionEnabled or the cipher holds a key.
C7_ClearFrameRejectedUnderPolicy ==
  [][\A frame \in {lastRecv'.frame} :
       (/\ frame.encryptionFlag # 1
        /\ sec.encryptionEnabled \/ gEncryptionState.initialized
        /\ OnDataRecvControlFrame(frame))
         => /\ latestPacket' = latestPacket
            /\ currentInputs' = currentInputs
            /\ validPackets' = validPackets
            /\ failsafeManager'.lastPacketTime = failsafeManager.lastPacketTime
            /\ ~lastRecv'.accepted]_vars

\* a clear frame was turned away by a session key alone
C7_Witness ==
  /\ lastRecv.frame.encryptionFlag # 1
  /\ lastRecv.steps = <<"rate", "policy">>
  /\ ~lastRecv.accepted
  /\ gEncryptionState.initialized
  /\ ~sec.encryptionEnabled

C9_RateLimiterFirst ==
  [][\A frame \in {lastRecv'.frame} :
       OnDataRecvControlFrame(frame) =>
         /\ Head(lastRecv'.steps) = "rate"
         /\ RateLimitManager_checkCommand(gRateLimitState, frame.mode, now).ret
              # RATE_LIMIT_ALLOWED
              => /\ lastRecv'.steps = <<"rate">>
                 /\ latestPacket' = latestPacket
                 /\ currentInputs' = currentInputs
                 /\ failsafeManager' =
                      [failsafeManager EXCEPT !.totalPackets = @ + 1,
                                              !.invalidHmacPackets = @ + 1]]_vars

\* a frame stopped by an empty bucket
C9_Witness ==
  /\ lastRecv.steps = <<"rate">>
  /\ gRateLimitState.initialized
  /\ gRateLimitState.totalBlocked > 0
  /\ failsafeManager.invalidHmacPackets > 0

\* C10: an accepted frame replaces latestPacket by the received frame with
\* its payload decrypted and hands its throttle and roll to the vehicle, so
\* the axis values the sender protected arrive unchanged; a rejected frame
\* leaves latestPacket and the vehicle inputs as they were.
C10_AcceptanceAllOrNothing ==
  [][\A frame \in {lastRecv'.frame} :
       OnDataRecvControlFrame(frame) =>
         IF lastRecv'.accepted
         THEN /\ latestPacket' =
                   IF frame.encryptionFlag = 1
                   THEN WithPayload(frame,
                          EncryptionManager_decrypt(gEncryptionState,
                            PayloadBytes(frame), ControlPayloadLen, frame.iv).out)
                   ELSE frame
              /\ currentInputs' = [throttle |-> latestPacket'.throttle,
                                   roll |-> latestPacket'.roll]
              /\ \A p \in {PlainA, PlainB}, k \in SenderKeys :
                   frame = SealedFrame(p, k, SenderIV)
                     => PayloadBytes(latestPacket') = PayloadBytes(p)
         ELSE /\ latestPacket' = latestPacket
              /\ currentInputs' = currentInputs]_vars

\* the command throttle 500, roll -200 arrived through an encrypted frame
C10_Witness ==
  /\ lastRecv.accepted
  /\ latestPacket.encryptionFlag = 1
  /\ latestPacket.throttle = 500 /\ latestPacket.roll = -200
  /\ latestPacket.pitch = 0 /\ latestPacket.yaw = 0
  /\ currentInputs = [throttle |-> 500, roll |-> -200]

\* C11: a control frame whose sequence number is not greater than that of
\* the last accepted frame is rejected and leaves the liveness timer alone.
\* (With no "sm" command so far latestPacket holds the last accepted frame.)
C11_ReplayRejected ==
  [][\A frame \in {lastRecv'.frame} :
       (/\ validPackets > 0
        /\ packetSequence = 0
        /\ frame.sequenceNumber <= latestPacket.sequenceNumber
        /\ OnDataRecvControlFrame(frame))
         => /\ ~lastRecv'.accepted
            /\ failsafeManager'.lastPacketTime = failsafeManager.lastPacketTime]_vars

\* the initiator has handled the RESPONSE frame, so both frames of the
\* handshake were delivered
HandshakeComplete == initiator.received # {}

\* C12: after a complete two-message handshake both devices are Established
\* with the same shared secret, each has applied it to its cipher and its
\* authenticator, and no transmitted frame carries the secret in a field.
C12_HandshakeAgreement ==
  HandshakeComplete =>
    /\ kx.state = KX_STATE_KEY_ESTABLISHED
    /\ initiator.kx.state = KX_STATE_KEY_ESTABLISHED
    /\ kx.sharedSecret = initiator.kx.sharedSecret
    /\ gEncryptionState.key = kx.sharedSecret
    /\ gHMACState.secret = kx.sharedSecret
    /\ initiator.enc.key = initiator.kx.sharedSecret
    /\ initiator.hm.secret = initiator.kx.sharedSecret
    /\ \A f \in initiator.sent \cup downlink :
         kx.sharedSecret \notin HandshakeFields(f)

\* C13: a key-exchange session in state Failed leaves Failed only in a handler
\* that calls reset() (the INIT handler); no other step moves it out.
C13_FailedUntilReset ==
  [][(kx.state = KX_STATE_FAILED /\ kx'.state # KX_STATE_FAILED)
       => OnDataRecvHandshakeInit]_vars

\* C14: reset() in any state leaves the session Idle with the shared secret
\* zero; from then until a key pair is generated getSharedSecret() and
\* getPublicKey() return false; getSharedSecret() is true only in Established.
C14_ResetWipesSession ==
  /\ [][KxOpReset => /\ kx'.state = KX_STATE_IDLE
                     /\ kx'.sharedSecret = 0]_vars
  /\ [](kxFresh => /\ ~getSharedSecret(kx).ret
                   /\ ~getPublicKey(kx).ret)
  /\ [](getSharedSecret(kx).ret => kx.state = KX_STATE_KEY_ESTABLISHED)

\* reset() wiped an established secret, and a shared-secret computation was
\* tried before any new key pair
C14_Witness ==
  /\ kxFresh
  /\ kx.initialized
  /\ kx.state = KX_STATE_FAILED
  /\ kx.sharedSecret = 0

\* C15: a handshake frame (INIT or RESPONSE) whose key generation or
\* shared-secret computation fails leaves the cipher key and the HMAC secret
\* as they were, so every control frame gets the same verdict as before it.
C15_FailedHandshakeKeepsKeys ==
  [][((OnDataRecvHandshakeInit \/ OnDataRecvHandshakePubkey)
        /\ kx'.state = KX_STATE_FAILED)
       => /\ gEncryptionState' = gEncryptionState
          /\ gHMACState' = gHMACState
          /\ \A frame \in GoodFrames :
               ControlChecks(frame, gEncryptionState', gHMACState',
                             sec'.encryptionEnabled).accepted
                 = ControlChecks(frame, gEncryptionState, gHMACState,
                                 sec.encryptionEnabled).accepted]_vars

\* a handshake has failed and an encrypted control frame was accepted under
\* the keys in effect
C15_Witness ==
  /\ kx.state = KX_STATE_FAILED
  /\ gEncryptionState.initialized /\ gHMACState.initialized
  /\ lastRecv.accepted
  /\ lastRecv.frame.encryptionFlag = 1

\* C16: whenever a control frame is decrypted and its tag validated, the
\* cipher key and the HMAC secret in use come from the same secret.
C16_KeysFromOneSecret ==
  [][\A frame \in {lastRecv'.frame} :
       (/\ OnDataRecvControlFrame(frame)
        /\ \E i \in DOMAIN lastRecv'.steps : lastRecv'.steps[i] = "hmac")
         => gEncryptionState.key = gHMACState.secret]_vars

\* the packet carries the control values and sequence number of one frame a
\* sender built (or is the packet of static construction)
FromOneFrame(pkt) ==
  \/ pkt = ZeroPacket
  \/ \E p \in {PlainA, PlainB} :
       /\ PayloadBytes(pkt) = PayloadBytes(p)
       /\ pkt.sequenceNumber = p.sequenceNumber

\* C17: the shared control frame is always one complete accepted frame: while
\* it is a manual-mode frame and no serial motor command has rewritten it,
\* all its values come from a single accepted frame, at every interleaving of
\* the receive callback with loop().
C17_LoopSeesOneFrame ==
  (packetSequence = 0 /\ (latestPacket.mode \div MODE_AUTO) % 2 = 0)
    => FromOneFrame(latestPacket)

\* C18: after RateLimitManager_init(n), 0 <= n <= 100, with the clock standing
\* still, the k-th checkCommand call is Allowed exactly when k <= n and
\* Exceeded otherwise, whatever the command tag.
C18_BurstOfExactlyN ==
  [][(BurstCheck /\ rlGhost.n >= 0 /\ ~rlGhost.ticked)
       => rlGhost'.last = IF rlGhost.calls < rlGhost.n
                          THEN RATE_LIMIT_ALLOWED
                          ELSE RATE_LIMIT_EXCEEDED]_vars

\* init(100), 100 calls Allowed and the 101st Exceeded
C18_Witness ==
  /\ rlGhost.n = 100
  /\ rlGhost.calls = 101
  /\ rlGhost.last = RATE_LIMIT_EXCEEDED
  /\ gRateLimitState.totalAllowed = 100
  /\ gRateLimitState.totalBlocked = 1

\* C19: when a call has left the bucket empty and the clock then moves by
\* 10 ms, the next checkCommand call is Allowed and the one after it Exceeded.
C19_OneTokenPerTick ==
  [][(RlOpCheck /\ rlGhost.dry)
       => rlGhost'.last = IF rlGhost.after = 0
                          THEN RATE_LIMIT_ALLOWED
                          ELSE RATE_LIMIT_EXCEEDED]_vars

\* an emptied bucket, one 10 ms step, one call Allowed and the next Exceeded
C19_Witness ==
  /\ rlGhost.dry
  /\ rlGhost.after = 2
  /\ rlGhost.last = RATE_LIMIT_EXCEEDED
  /\ gRateLimitState.totalAllowed >= 2

\* C20: after any sequence of init, checkCommand, refill and reset at any
\* clock values the token count is between 0 and the capacity.
C20_TokensWithinCapacity ==
  /\ 0 <= gRateLimitState.tokens
  /\ gRateLimitState.tokens <= gRateLimitState.capacity
  /\ gRateLimitState.capacity = RATE_LIMIT_CAPACITY

\* a full bucket met a refill: init(100), a clock step, one call
C20_Witness ==
  /\ rlGhost.n = 100
  /\ rlGhost.ticked
  /\ rlGhost.calls = 1
  /\ gRateLimitState.lastRefillTime > 0
  /\ gRateLimitState.tokens = RATE_LIMIT_CAPACITY - 1

\* the token count the refill step of a check is to produce
RefillExpected(rl, millis) ==
  LET sum == rl.tokens + (millis - rl.lastRefillTime) \div 10
  IN  IF sum > rl.capacity THEN rl.capacity ELSE sum

\* C21: on every checkCommand of an initialised limiter the token count after
\* the refill step is min(capacity, tokens + floor(elapsed / 10)), which is
\* never below the count before it.
C21_RefillAddsElapsedTicks ==
  [][(RlOpCheck /\ gRateLimitState.initialized)
       => /\ gRateLimitState'.tokens
               + (IF rlGhost'.last = RATE_LIMIT_ALLOWED THEN 1 ELSE 0)
               = RefillExpected(gRateLimitState, now)
          /\ RefillExpected(gRateLimitState, now) >= gRateLimitState.tokens]_vars

\* C22: a check advances the refill timestamp by floor(elapsed / 10) * 10, so
\* after every check of an initialised limiter the time since the timestamp
\* is the remainder elapsed mod 10, below 10 ms, and the timestamp is not
\* past the clock.
C22_TimestampKeepsRemainder ==
  [][(RlOpCheck /\ gRateLimitState.initialized)
       => /\ gRateLimitState'.lastRefillTime
               = gRateLimitState.lastRefillTime
                   + ((now - gRateLimitState.lastRefillTime) \div 10) * 10
          /\ now - gRateLimitState'.lastRefillTime
               = (now - gRateLimitState.lastRefillTime) % 10
          /\ now - gRateLimitState'.lastRefillTime < 10
          /\ gRateLimitState'.lastRefillTime <= now]_vars

\* C23: every checkCommand on an initialised limiter increments exactly one
\* counter: Allowed adds 1 to totalAllowed and takes one token from the count
\* after the refill step, Exceeded adds 1 to totalBlocked and leaves 0 tokens;
\* the two counters add up to the checks made since the last init or reset.
C23_CountersCountChecks ==
  /\ [][(RlOpCheck /\ gRateLimitState.initialized)
          => \/ /\ rlGhost'.last = RATE_LIMIT_ALLOWED
                /\ gRateLimitState'.totalAllowed = gRateLimitState.totalAllowed + 1
                /\ gRateLimitState'.totalBlocked = gRateLimitState.totalBlocked
                /\ gRateLimitState'.tokens
                     = RateLimitRefillStep(gRateLimitState, now).tokens - 1
             \/ /\ rlGhost'.last = RATE_LIMIT_EXCEEDED
                /\ gRateLimitState'.totalBlocked = gRateLimitState.totalBlocked + 1
                /\ gRateLimitState'.totalAllowed = gRateLimitState.totalAllowed
                /\ gRateLimitState'.tokens = 0]_vars
  /\ [](gRateLimitState.initialized
          => gRateLimitState.totalAllowed + gRateLimitState.totalBlocked
               = rlGhost.calls)

\* allowed and refused checks, with a clock step in between
C23_Witness ==
  /\ gRateLimitState.initialized
  /\ rlGhost.ticked
  /\ gRateLimitState.totalAllowed >= 2
  /\ gRateLimitState.totalBlocked >= 1
  /\ rlGhost.calls = gRateLimitState.totalAllowed + gRateLimitState.totalBlocked

\* C24: a payload of 1..64 bytes encrypted and then decrypted under the same
\* key and nonce, in the same buffer, is the payload again.
C24_DecryptInvertsEncrypt ==
  (call.fn = "decrypt" /\ call.encRet /\ call.nullArg = "none"
     /\ call.key = call.encKey)
    => /\ call.ret
       /\ call.out = call.plain

\* a 64-byte payload came back from a ciphertext that differs from it
C24_Witness ==
  /\ call.fn = "decrypt"
  /\ call.encRet
  /\ call.ret
  /\ call.len = AES_MAX_PAYLOAD
  /\ call.key = call.encKey
  /\ call.in # call.plain
  /\ call.out = call.plain


\* C25: encrypt and decrypt called with more than 64 bytes, with a null
\* argument or before a successful init return false and leave the buffer as
\* it was; no call changes the key or the readiness flag.
C25_RejectedCallWritesNothing ==
  [][(call'.fn = "encrypt" \/ call'.fn = "decrypt")
       => /\ gEncryptionState' = gEncryptionState
          /\ (call'.len > AES_MAX_PAYLOAD \/ call'.nullArg # "none"
                 \/ ~gEncryptionState.initialized)
               => (~call'.ret /\ call'.out = call'.in)]_vars

\* an initialised cipher refused a 65-byte buffer and left it untouched
C25_Witness ==
  /\ call.fn = "encrypt"
  /\ call.ready
  /\ call.nullArg = "none"
  /\ call.len > AES_MAX_PAYLOAD
  /\ ~call.ret
  /\ call.out = call.in


\* C26: with the authenticator initialised, a payload of at most 64 bytes is
\* accepted against a tag exactly when the tag was generated over that very
\* payload; while the authenticator is not initialised (before init, after
\* reset) generate and validate return false.
C26_TagAcceptsOnlyItsPayload ==
  /\ (call.fn = "validate" /\ call.tagRet /\ call.ready
        /\ call.secret = call.tagSecret /\ call.len <= HMAC_MAX_PAYLOAD)
       => (call.ret <=> call.data = call.tagged)
  /\ ((call.fn = "generate" \/ call.fn = "validate") /\ ~call.ready)
       => ~call.ret

\* a 64-byte payload whose last byte was changed after tagging was refused
C26_Witness ==
  /\ call.fn = "validate"
  /\ call.tagRet
  /\ call.ready
  /\ call.secret = call.tagSecret
  /\ call.len = HMAC_MAX_PAYLOAD
  /\ call.data = Tamper(call.tagged, HMAC_MAX_PAYLOAD)
  /\ ~call.ret


\* C27: a finished comparison of two tags has run exactly 32 loop
\* iterations, wherever the tags differ, and has returned true exactly when
\* all 32 byte pairs are equal.
C27_CompareInspectsEveryByte ==
  (call.fn = "compare" /\ call.done /\ call.nullArg = "none")
    => /\ call.steps = HMAC_SHA256_SIZE
       /\ call.ret <=> (\A i \in 1..HMAC_SHA256_SIZE : call.h1[i] = call.h2[i])
       /\ call.ret = HMACValidator_constantTimeCompare(call.h1, call.h2)

\* two tags that differ in their first byte were compared to the end
C27_Witness ==
  /\ call.fn = "compare"
  /\ call.done
  /\ call.nullArg = "none"
  /\ call.h1[1] # call.h2[1]
  /\ call.steps = HMAC_SHA256_SIZE
  /\ ~call.ret


\* C28: no two encrypted telemetry frames sent under the same key carry the
\* same nonce, also when the nonce generator failed in a cycle.
C28_TelemetryNonceNeverReused ==
  \A i \in 1..Len(telemetry.sent), j \in 1..Len(telemetry.sent) :
    (i < j /\ telemetry.sent[i].encrypted /\ telemetry.sent[j].encrypted
       /\ telemetry.sent[i].key = telemetry.sent[j].key)
      => telemetry.sent[i].iv # telemetry.sent[j].iv


\* C29: a buffer whose length is neither the handshake nor the control frame
\* size changes nothing in the firmware, and a handshake frame leaves the
\* rate limiter (tokens, counters), the failsafe manager and latestPacket
\* as they were.
FirmwareState ==
  <<now, booted, failsafeManager, gRateLimitState, gEncryptionState,
    gHMACState, sec, kx, latestPacket, packetSequence, currentInputs,
    motorCmd, telemetry>>

C29_UnroutedFramesHaveNoEffect ==
  [][/\ OnDataRecvDropped => UNCHANGED FirmwareState
     /\ (OnDataRecvHandshakeInit \/ OnDataRecvHandshakePubkey)
          => UNCHANGED <<gRateLimitState, failsafeManager, latestPacket,
                         currentInputs>>
     /\ \A len \in RecvLens \ {SizeofNAHandshakePacket, SizeofNAPacket},
           version \in RecvVersions, type \in RecvTypes :
          OnDataRecvBranch(len, version, type) = "None"]_vars

\* a 21-byte buffer arrived after a handshake had set the keys
C29_Witness ==
  /\ call.fn = "OnDataRecv"
  /\ call.len = SizeofNAPacket + 1
  /\ gEncryptionState.initialized
  /\ kx.state = KX_STATE_KEY_ESTABLISHED


\* C30: a call of RateLimitManager_refill() on an initialised limiter adds
\* one token, up to the capacity, and returns the new count; a check that
\* follows a refill() directly is allowed.
C30_RefillCallRestoresOneToken ==
  [][/\ (RlOpRefill /\ gRateLimitState.initialized)
          => /\ gRateLimitState'.tokens
                  = (IF gRateLimitState.tokens + 1 > gRateLimitState.capacity
                     THEN gRateLimitState.capacity
                     ELSE gRateLimitState.tokens + 1)
             /\ RateLimitManager_refill(gRateLimitState)
                  = gRateLimitState'.tokens
     /\ (RlOpCheck /\ gRateLimitState.initialized /\ rlGhost.op = "refill")
          => rlGhost'.last = RATE_LIMIT_ALLOWED]_vars


\* C31: reset() leaves a full bucket and zero counters, and the first 100
\* checks after a reset, made before the clock moves, are all allowed,
\* whatever the clock shows.
C31_ResetGivesFullBurst ==
  [][/\ RlOpReset
          => /\ gRateLimitState'.tokens = gRateLimitState'.capacity
             /\ gRateLimitState'.totalAllowed = 0
             /\ gRateLimitState'.totalBlocked = 0
     /\ (/\ rlGhost.n = -1
         /\ gRateLimitState.initialized
         /\ ~rlGhost.ticked
         /\ rlGhost.calls < RATE_LIMIT_CAPACITY
         /\ BurstCheck)
          => rlGhost'.last = RATE_LIMIT_ALLOWED]_vars


\* C32: when update(currentTime) runs and the last authenticated packet is
\* less than 500 ms old on the clock, the failsafe is Armed afterwards, also
\* when the packet arrived after currentTime was sampled.
C32_FreshPacketNeverEmergency ==
  [][(/\ loopPc = "sampled"
      /\ validPackets > 0
      /\ now - failsafeManager.lastPacketTime < SIGNAL_LOSS_THRESHOLD
      /\ LoopAfterSample)
       => failsafeManager'.currentState = FAILSAFE_ARMED]_vars


\* C33: a pass of loop() that handles a serial command without an "hmac"
\* field leaves the time of the last authenticated packet and the control
\* inputs of the vehicle as they were.
C33_UnsignedSerialCommandHasNoEffect ==
  [][\A cmd \in SerialCommands :
       (/\ cmd.hmacKey = -1
        /\ events' = events + 1
        /\ now' = now
        /\ lastRecv' = lastRecv
        /\ kx' = kx
        /\ LoopBody(cmd))
         => /\ failsafeManager'.lastPacketTime = failsafeManager.lastPacketTime
            /\ currentInputs' = currentInputs]_vars


\* C34: a RESPONSE handshake frame that arrives while the session is not
\* awaiting a peer key leaves the cipher key, the HMAC secret and the state
\* of the key exchange as they were.
C34_UnsolicitedResponseIgnored ==
  [][(/\ kx.state # KX_STATE_WAIT_FOR_PEER_PUBKEY
      /\ OnDataRecvHandshakePubkey)
       => /\ gEncryptionState' = gEncryptionState
          /\ gHMACState' = gHMACState
          /\ kx'.state = kx.state]_vars


\* C35: while the configuration does not ask for encryption and no key
\* exchange has taken place, a well-formed frame without the encryption flag
\* that the rate limiter lets through is accepted.
C35_ClearFrameAcceptedWithoutPolicy ==
  [][\A frame \in {lastRecv'.frame} :
       (/\ frame.encryptionFlag = 0
        /\ ~sec.encryptionEnabled
        /\ kx.state = KX_STATE_IDLE
        /\ NA_PACKET_IS_VALID(frame)
        /\ OnDataRecvControlFrame(frame)
        /\ gRateLimitState'.totalAllowed = gRateLimitState.totalAllowed + 1)
         => /\ lastRecv'.accepted
            /\ latestPacket' = frame]_vars


\* C36: setup() leaves the rate limiter initialised with the persisted
\* rate-limit value, capped at the capacity, as its token count.
C36_SetupInitialisesLimiter ==
  [][Setup
       => /\ gRateLimitState'.initialized
          /\ gRateLimitState'.tokens
               = (IF sec.rateLimitCPS > RATE_LIMIT_CAPACITY
                  THEN RATE_LIMIT_CAPACITY ELSE sec.rateLimitCPS)]_vars


\* C37: a frame protected the way loop() protects telemetry passes the
\* inbound checks of control frames under the same key.
C37_OutboundPassesInbound ==
  (/\ call.fn = "receive"
   /\ call.ready
   /\ gEncryptionState.initialized
   /\ gEncryptionState.key = call.key
   /\ gHMACState.initialized
   /\ gHMACState.secret = call.secret)
    => call.accepted


\* C38: every encrypted telemetry frame decrypts, under the key and the
\* nonce it was sent with, to the telemetry values current at send time:
\* no field of the 19-byte region holds ciphertext of an earlier cycle, and
\* the decrypted gps-lock bit is the current lock state.
C38_EncryptedTelemetryDecryptsToCurrent ==
  (/\ call.fn = "telemetry"
   /\ call.cycles > 0
   /\ call.encrypted)
    => LET d == EncryptionManager_decrypt(
                  [key |-> call.key, initialized |-> TRUE], call.region,
                  TELEMETRY_ENC_LEN, call.iv).out
       IN  /\ d = call.values
           /\ ((d[TELEMETRY_ENC_LEN] \div 2) % 2 = 1) = call.gps


\* C39: from power-up until the first authenticated packet is recorded the
\* failsafe state is never Armed, whatever the timing of the first update()
\* calls after setup().
C39_NotArmedBeforeFirstPacket ==
  (failsafeManager.totalPackets = failsafeManager.invalidHmacPackets)
    => failsafeManager.currentState # FAILSAFE_ARMED
====
